---- MODULE Spec2Model ----
(***************************************************************************)
(* The attribute-channel store of the half-edge mesh                       *)
(* (src/src/mesh/halfedge/channels.rs): Channel, ChannelGroup and          *)
(* MeshChannels, the RefCell borrow discipline of each channel, and the    *)
(* type-erased access path used by the Lua bridge.                         *)
(*                                                                         *)
(* Rust functions are modelled as operators that take the value of `self`  *)
(* and return a record with the new value of `self` and the result; the    *)
(* actions at the end apply them to the store of one mesh.                 *)
(***************************************************************************)
EXTENDS Integers, Sequences, FiniteSets, Bags, TLC

(* ------------------------------ bounds -------------------------------- *)

\* Generations a channel slot of a group goes through (allocate, remove, reuse).
MaxGen == 2
\* Arena slots of the element arena (vertices, faces, half-edges) that callers use.
MaxElemIdx == 2
\* Generations of an element arena slot that callers hold handles of.
MaxElemGen == 2
\* Channels the callers allocate in the store over a whole run.
MaxAllocs == 3
\* Entries the callers keep stored in the channels of the store at one time.
MaxEntries == 2
\* Guards (Ref / RefMut) the callers hold at the same time, over the whole store.
MaxGuards == 2
\* Non-default values a caller writes (values are 0..MaxVal, 0 the default).
MaxVal == 1
\* Width of the index half of a key's ffi encoding (the program's is 2^32).
IdxMod == 8

(* --------------------------- types and tags --------------------------- *)

ChannelKeyType == {"VertexId", "FaceId", "HalfEdgeId"}

ChannelValueType == {"Vec2", "Vec3", "Vec4", "f32", "bool"}

\* (K, V) pairings the callers of this model instantiate the generic API with.
GroupKeys == {<<"VertexId", "Vec3">>, <<"VertexId", "f32">>}

key_of(K, V) == <<K, V>>

\* Channel names the callers use.
Names == {"position", "size"}

\* V::default() of every value type (Vec*::ZERO, 0.0, false).
DefaultValue == 0

Values == 0..MaxVal

\* slotmap keys: an index and an odd (occupied) version.
OddVersions(gens) == {2 * g - 1 : g \in 1..gens}

RawChannelIds == [idx : 1..Cardinality(Names), version : OddVersions(MaxGen)]

\* slotmap's null key: idx = u32::MAX, version = 1.
NullKey == [idx |-> IdxMod - 1, version |-> 1]

ElemKeys == [idx : 1..MaxElemIdx, version : OddVersions(MaxElemGen)] \cup {NullKey}

is_null(key) == key.idx = IdxMod - 1

(* ------------------- slotmap::SecondaryMap<K, V> ----------------------- *)
\* A slot is Vacant (version 0) or Occupied {value, version}.

VacantSlot == [version |-> 0, value |-> DefaultValue]

SecondaryMap_new == [i \in 1..MaxElemIdx |-> VacantSlot]

InRange(inner, key) == key.idx \in DOMAIN inner

\* A variant of the lookup that takes any occupant of the slot for the key's.
SecondaryMap_contains_any_version(inner, key) ==
    /\ InRange(inner, key)
    /\ inner[key.idx].version # 0

\* SecondaryMap::get: Some(value) iff the slot is occupied with the key's version.
SecondaryMap_contains(inner, key) ==
    /\ InRange(inner, key)
    /\ inner[key.idx].version = key.version

\* is_older_version(a, b): a is an older generation than b.
is_older_version(a, b) == a < b

\* SecondaryMap::entry: "None" for a null key or a key older than the slot's
\* occupant, "Occupied" when the slot holds this very key, else "Vacant".
SecondaryMap_entry(inner, key) ==
    IF is_null(key) \/ ~InRange(inner, key) THEN "None"
    ELSE IF inner[key.idx].version = key.version THEN "Occupied"
    ELSE IF is_older_version(key.version, inner[key.idx].version) THEN "None"
    ELSE "Vacant"

\* A variant of the store that empties the other slots.
SecondaryMap_store_alone(inner, key, val) ==
    [SecondaryMap_new EXCEPT ![key.idx] = [version |-> key.version, value |-> val]]

\* Entry::or_default followed by a store of val through the returned &mut V:
\* a vacant entry replaces whatever (older) occupant the slot has.
SecondaryMap_store(inner, key, val) ==
    [inner EXCEPT ![key.idx] = [version |-> key.version, value |-> val]]

(* --------------------------- Channel<K, V> ----------------------------- *)

Channel_default == [inner |-> SecondaryMap_new, default |-> DefaultValue]

\* A variant of index that does not compare the generation of the key.
Channel_index_any_version(ch, key) ==
    IF InRange(ch.inner, key) /\ ch.inner[key.idx].version # 0
    THEN ch.inner[key.idx].value
    ELSE ch.default

\* impl Index<K> for Channel: self.inner.get(index).unwrap_or(&self.default)
Channel_index(ch, key) ==
    IF SecondaryMap_contains(ch.inner, key) THEN ch.inner[key.idx].value
    ELSE ch.default

\* Channel::get: self.inner.get(id).copied(), an Option<V>.
Channel_get(ch, key) ==
    IF SecondaryMap_contains(ch.inner, key)
    THEN [tag |-> "Some", val |-> ch.inner[key.idx].value]
    ELSE [tag |-> "None", val |-> DefaultValue]

\* A variant of index_mut whose new entry keeps the default.
Channel_index_mut_keeps_default(ch, key, val) ==
    LET e == SecondaryMap_entry(ch.inner, key) IN
    IF e = "None" THEN [self |-> ch, tag |-> "Panic"]
    ELSE IF e = "Occupied"
    THEN [self |-> [ch EXCEPT !.inner[key.idx].value = val], tag |-> "Ok"]
    ELSE [self |-> [ch EXCEPT !.inner = SecondaryMap_store(ch.inner, key, DefaultValue)],
          tag |-> "Ok"]

\* impl IndexMut<K> for Channel, used as `ch[key] = val`:
\* entry(index).expect(..).or_default(), then the assignment.
Channel_index_mut(ch, key, val) ==
    LET e == SecondaryMap_entry(ch.inner, key) IN
    IF e = "None" THEN [self |-> ch, tag |-> "Panic"]
    ELSE IF e = "Occupied"
    THEN [self |-> [ch EXCEPT !.inner[key.idx].value = val], tag |-> "Ok"]
    ELSE [self |-> [ch EXCEPT !.inner = SecondaryMap_store(ch.inner, key, val)],
          tag |-> "Ok"]

\* A variant of get_mut that only finds stored entries.
Channel_get_mut_stored_only(ch, key) ==
    IF SecondaryMap_contains(ch.inner, key) THEN [self |-> ch, tag |-> "Some"]
    ELSE [self |-> ch, tag |-> "None"]

\* Channel::get_mut: Some(self.inner.entry(id)?.or_default()); a vacant
\* entry is filled with the default.
Channel_get_mut(ch, key) ==
    LET e == SecondaryMap_entry(ch.inner, key) IN
    IF e = "None" THEN [self |-> ch, tag |-> "None"]
    ELSE IF e = "Occupied" THEN [self |-> ch, tag |-> "Some"]
    ELSE [self |-> [ch EXCEPT !.inner = SecondaryMap_store(ch.inner, key, DefaultValue)],
          tag |-> "Some"]

\* Channel::set: *self.inner.get_mut(id)? = val
Channel_set(ch, key, val) ==
    IF SecondaryMap_contains(ch.inner, key)
    THEN [self |-> [ch EXCEPT !.inner[key.idx].value = val], tag |-> "Some"]
    ELSE [self |-> ch, tag |-> "None"]

\* A variant of iter that yields every slot, the vacant ones as well.
Channel_iter_every_slot(ch) ==
    [j \in 1..Len(ch.inner) |->
        <<[idx |-> j, version |-> ch.inner[j].version], ch.inner[j].value>>]

\* Channel::iter: the stored entries, <<key, value>>, in slot order.
Channel_iter(ch) ==
    LET occ == SelectSeq([i \in 1..Len(ch.inner) |-> i],
                         LAMBDA i : ch.inner[i].version # 0) IN
    [j \in 1..Len(occ) |->
        <<[idx |-> occ[j], version |-> ch.inner[occ[j]].version], ch.inner[occ[j]].value>>]

\* format!("{:?}", v): vector types print their type name around the
\* components, numbers and booleans print bare.
Debug_fmt(vty, v) == IF vty \in {"f32", "bool"} THEN <<v>> ELSE <<vty, v>>

(* ------------------------- std::cell::RefCell -------------------------- *)
\* The borrow flag: 0 unused, n > 0 shared borrows, -1 one exclusive borrow.

RefCell_new(v) == [value |-> v, borrow |-> 0]

\* Variants of try_borrow: one that does not look for an exclusive borrow,
\* one that refuses the cell as soon as it is borrowed at all.
try_borrow_unchecked(cell) ==
    [self |-> [cell EXCEPT !.borrow = cell.borrow + 1], tag |-> "Ok"]

try_borrow_exclusive(cell) ==
    IF cell.borrow = 0
    THEN [self |-> [cell EXCEPT !.borrow = 1], tag |-> "Ok"]
    ELSE [self |-> cell, tag |-> "BorrowError"]

\* RefCell::try_borrow
try_borrow(cell) ==
    IF cell.borrow >= 0
    THEN [self |-> [cell EXCEPT !.borrow = cell.borrow + 1], tag |-> "Ok"]
    ELSE [self |-> cell, tag |-> "BorrowError"]

\* A variant of try_borrow_mut that only looks for an exclusive borrow.
try_borrow_mut_over_readers(cell) ==
    IF cell.borrow >= 0
    THEN [self |-> [cell EXCEPT !.borrow = -1], tag |-> "Ok"]
    ELSE [self |-> cell, tag |-> "BorrowMutError"]

\* RefCell::try_borrow_mut
try_borrow_mut(cell) ==
    IF cell.borrow = 0
    THEN [self |-> [cell EXCEPT !.borrow = -1], tag |-> "Ok"]
    ELSE [self |-> cell, tag |-> "BorrowMutError"]

\* A variant of the drop of a Ref that leaves the cell unused.
Ref_drop_clears(cell) == [cell EXCEPT !.borrow = 0]

\* Drop of a Ref: one shared borrow fewer.
Ref_drop(cell) == [cell EXCEPT !.borrow = cell.borrow - 1]

\* Drop of a RefMut: the cell is unused again.
RefMut_drop(cell) == [cell EXCEPT !.borrow = cell.borrow + 1]

\* A variant of clone that copies the borrow flag with the value.
RefCell_clone_with_flag(cell) ==
    IF cell.borrow < 0 THEN [self |-> cell, tag |-> "Panic"]
    ELSE [self |-> cell, tag |-> "Ok"]

\* impl Clone for RefCell<T>: RefCell::new(self.borrow().clone()); borrow()
\* panics on a cell that is exclusively borrowed.
RefCell_clone(cell) ==
    IF cell.borrow < 0 THEN [self |-> cell, tag |-> "Panic"]
    ELSE [self |-> RefCell_new(cell.value), tag |-> "Ok"]

(* --------------- slotmap::SlotMap<RawChannelId, RefCell<..>> ----------- *)
\* slots[i] is the slot of index i (the sentinel slot 0 is left out); a slot
\* is occupied iff its version is odd; vacant slots are chained by next_free.

EmptyCell == RefCell_new(Channel_default)

SlotMap_new == [slots |-> << >>, free_head |-> 1]

\* A variant of contains_key that takes any occupant of the slot for the key's.
SlotMap_contains_key_any_version(sm, key) ==
    /\ key.idx \in 1..Len(sm.slots)
    /\ sm.slots[key.idx].version % 2 = 1

SlotMap_contains_key(sm, key) ==
    /\ key.idx \in 1..Len(sm.slots)
    /\ sm.slots[key.idx].version = key.version

\* The key the next insert returns.
SlotMap_next_key(sm) ==
    IF sm.free_head \in 1..Len(sm.slots)
    THEN [idx |-> sm.free_head, version |-> sm.slots[sm.free_head].version + 1]
    ELSE [idx |-> Len(sm.slots) + 1, version |-> 1]

\* SlotMap::insert: reuse the head of the free list with the version made
\* odd, or push a new slot of version 1.
SlotMap_insert(sm, cell) ==
    LET key == SlotMap_next_key(sm) IN
    IF sm.free_head \in 1..Len(sm.slots)
    THEN [self |-> [slots |-> [sm.slots EXCEPT ![key.idx] =
                                  [version |-> key.version, next_free |-> 0, cell |-> cell]],
                    free_head |-> sm.slots[key.idx].next_free],
          key |-> key]
    ELSE [self |-> [slots |-> Append(sm.slots,
                                  [version |-> 1, next_free |-> 0, cell |-> cell]),
                    free_head |-> key.idx + 1],
          key |-> key]

\* SlotMap::remove: Some(value) and the slot vacated (version made even,
\* pushed on the free list), or None for a key that is not in the map.
SlotMap_remove(sm, key) ==
    IF SlotMap_contains_key(sm, key)
    THEN [self |-> [slots |-> [sm.slots EXCEPT ![key.idx] =
                                  [version |-> key.version + 1,
                                   next_free |-> sm.free_head,
                                   cell |-> EmptyCell]],
                    free_head |-> key.idx],
          tag |-> "Some"]
    ELSE [self |-> sm, tag |-> "None"]

\* impl Clone for SlotMap: every slot with its version and free-list link,
\* the value of an occupied slot cloned.
SlotMap_clone(sm) ==
    [self |-> [sm EXCEPT !.slots =
                  [i \in DOMAIN sm.slots |->
                      [sm.slots[i] EXCEPT !.cell = RefCell_clone(sm.slots[i].cell).self]]],
     tag |-> IF \E i \in DOMAIN sm.slots : RefCell_clone(sm.slots[i].cell).tag = "Panic"
             THEN "Panic" ELSE "Ok"]

(* ------------------ bimap::BiMap<String, ChannelId> -------------------- *)
\* A set of <<name, id>> pairs.

BiMap_new == {}

BiMap_contains_left(bm, name) == \E p \in bm : p[1] = name

BiMap_contains_right(bm, id) == \E p \in bm : p[2] = id

BiMap_get_by_left(bm, name) == (CHOOSE p \in bm : p[1] = name)[2]

BiMap_get_by_right(bm, id) == (CHOOSE p \in bm : p[2] = id)[1]

\* BiMap::insert overwrites every pair that has the same left or the same right.
BiMap_insert(bm, name, id) ==
    {p \in bm : p[1] # name /\ p[2] # id} \cup {<<name, id>>}

BiMap_remove_by_right(bm, id) == {p \in bm : p[2] # id}

(* ------------------------- ChannelGroup<K, V> -------------------------- *)
\* `type` is the concrete instantiation ChannelGroup<K, V> behind the
\* Box<dyn DynChannelGroup>; results carry an error kind in `tag`.

NoId == [idx |-> 0, version |-> 0]

ChannelGroup_default(K, V) ==
    [type |-> <<K, V>>, channel_names |-> BiMap_new, channels |-> SlotMap_new]

\* A variant of ensure_channel that inserts without looking the name up.
ChannelGroup_ensure_always_inserts(g, name) ==
    LET ins == SlotMap_insert(g.channels, RefCell_new(Channel_default)) IN
    [self |-> [g EXCEPT !.channels = ins.self,
                        !.channel_names = BiMap_insert(g.channel_names, name, ins.key)],
     tag |-> "Ok", id |-> ins.key]

ChannelGroup_ensure_channel(g, name) ==
    IF BiMap_contains_left(g.channel_names, name)
    THEN [self |-> g, tag |-> "Ok", id |-> BiMap_get_by_left(g.channel_names, name)]
    ELSE LET ins == SlotMap_insert(g.channels, RefCell_new(Channel_default)) IN
         [self |-> [g EXCEPT !.channels = ins.self,
                             !.channel_names = BiMap_insert(g.channel_names, name, ins.key)],
          tag |-> "Ok", id |-> ins.key]

\* Variants of create_channel: one without the lookup, one that inserts the
\* channel before the lookup.
ChannelGroup_create_unchecked(g, name) == ChannelGroup_ensure_channel(g, name)

ChannelGroup_create_inserts_first(g, name) ==
    LET ins == SlotMap_insert(g.channels, RefCell_new(Channel_default)) IN
    IF BiMap_contains_left(g.channel_names, name)
    THEN [self |-> [g EXCEPT !.channels = ins.self], tag |-> "AlreadyExists", id |-> NoId]
    ELSE ChannelGroup_ensure_channel(g, name)

ChannelGroup_create_channel(g, name) ==
    IF BiMap_contains_left(g.channel_names, name)
    THEN [self |-> g, tag |-> "AlreadyExists", id |-> NoId]
    ELSE ChannelGroup_ensure_channel(g, name)

\* A variant of remove_channel that deregisters by slot index alone.
ChannelGroup_remove_by_index(g, id) ==
    LET names == {p \in g.channel_names : p[2].idx # id.idx}
        rem == SlotMap_remove(g.channels, id) IN
    IF rem.tag = "None"
    THEN [self |-> [g EXCEPT !.channel_names = names], tag |-> "NotFound", id |-> NoId]
    ELSE [self |-> [g EXCEPT !.channel_names = names, !.channels = rem.self],
          tag |-> "Ok", id |-> id]

\* A variant of remove_channel that leaves the name registered.
ChannelGroup_remove_keeps_name(g, id) ==
    LET rem == SlotMap_remove(g.channels, id) IN
    IF rem.tag = "None"
    THEN [self |-> g, tag |-> "NotFound", id |-> NoId]
    ELSE [self |-> [g EXCEPT !.channels = rem.self], tag |-> "Ok", id |-> id]

\* The name is deregistered before the slot map is asked for the channel.
ChannelGroup_remove_channel(g, id) ==
    LET names == BiMap_remove_by_right(g.channel_names, id)
        rem == SlotMap_remove(g.channels, id) IN
    IF rem.tag = "None"
    THEN [self |-> [g EXCEPT !.channel_names = names], tag |-> "NotFound", id |-> NoId]
    ELSE [self |-> [g EXCEPT !.channel_names = names, !.channels = rem.self],
          tag |-> "Ok", id |-> id]

ChannelGroup_channel_id(g, name) ==
    IF BiMap_contains_left(g.channel_names, name)
    THEN [tag |-> "Some", id |-> BiMap_get_by_left(g.channel_names, name)]
    ELSE [tag |-> "None", id |-> NoId]

\* A variant of channel_name that finds the name by the slot index of the id.
ChannelGroup_channel_name_by_index(g, id) ==
    IF \E p \in g.channel_names : p[2].idx = id.idx
    THEN [tag |-> "Some", name |-> (CHOOSE p \in g.channel_names : p[2].idx = id.idx)[1]]
    ELSE [tag |-> "None", name |-> "-"]

ChannelGroup_channel_name(g, id) ==
    IF BiMap_contains_right(g.channel_names, id)
    THEN [tag |-> "Some", name |-> BiMap_get_by_right(g.channel_names, id)]
    ELSE [tag |-> "None", name |-> "-"]

SetCell(g, id, cell) == [g EXCEPT !.channels.slots[id.idx].cell = cell]

CellOf(g, id) == g.channels.slots[id.idx].cell

ChannelGroup_read_channel(g, id) ==
    IF ~SlotMap_contains_key(g.channels, id)
    THEN [self |-> g, tag |-> "NotFound", id |-> NoId]
    ELSE LET b == try_borrow(CellOf(g, id)) IN
         IF b.tag = "Ok"
         THEN [self |-> SetCell(g, id, b.self), tag |-> "Ok", id |-> id]
         ELSE [self |-> g, tag |-> "BorrowConflict", id |-> NoId]

\* A variant of write_channel under one borrow flag for the whole group: it
\* is refused while any channel of the group is borrowed.
ChannelGroup_write_channel_group_wide(g, id) ==
    IF ~SlotMap_contains_key(g.channels, id)
    THEN [self |-> g, tag |-> "NotFound", id |-> NoId]
    ELSE IF \E i \in DOMAIN g.channels.slots : g.channels.slots[i].cell.borrow # 0
    THEN [self |-> g, tag |-> "BorrowConflict", id |-> NoId]
    ELSE [self |-> SetCell(g, id, try_borrow_mut(CellOf(g, id)).self), tag |-> "Ok", id |-> id]

ChannelGroup_write_channel(g, id) ==
    IF ~SlotMap_contains_key(g.channels, id)
    THEN [self |-> g, tag |-> "NotFound", id |-> NoId]
    ELSE LET b == try_borrow_mut(CellOf(g, id)) IN
         IF b.tag = "Ok"
         THEN [self |-> SetCell(g, id, b.self), tag |-> "Ok", id |-> id]
         ELSE [self |-> g, tag |-> "BorrowConflict", id |-> NoId]

\* A variant of the temporary whose Ref is never dropped.
Ref_temporary_leaked(g, id) == ChannelGroup_read_channel(g, id).self

\* self.read_channel(id).unwrap() used as a temporary: the Ref is dropped at
\* the end of the statement.
Ref_temporary(g, id) ==
    LET r == ChannelGroup_read_channel(g, id) IN
    SetCell(r.self, id, Ref_drop(CellOf(r.self, id)))

\* The group after the loop of introspect over the registered pairs.
RECURSIVE introspect_loop(_, _)
introspect_loop(g, pairs) ==
    IF pairs = {} THEN g
    ELSE LET p == CHOOSE q \in pairs : TRUE IN
         introspect_loop(Ref_temporary(g, p[2]), pairs \ {p})

\* A variant of introspect that takes each channel with write_channel.
ChannelGroup_introspect_exclusive(g) ==
    IF \E p \in g.channel_names : ChannelGroup_write_channel(g, p[2]).tag # "Ok"
    THEN [self |-> g, tag |-> "Panic", value |-> << >>]
    ELSE [self |-> g, tag |-> "Ok",
          value |-> [name \in {p[1] : p \in g.channel_names} |->
                        LET it == Channel_iter(CellOf(g, BiMap_get_by_left(g.channel_names, name)).value) IN
                        [j \in 1..Len(it) |-> Debug_fmt(g.type[2], it[j][2])]]]

\* DynChannelGroup::introspect: for each registered (name, id),
\* self.read_channel(id).unwrap().iter() rendered with {:?}; the unwrap
\* panics when the read is refused, and the unwinding leaves no Ref behind.
\* The Ref is a temporary.
ChannelGroup_introspect(g) ==
    IF \E p \in g.channel_names : ChannelGroup_read_channel(g, p[2]).tag # "Ok"
    THEN [self |-> g, tag |-> "Panic", value |-> << >>]
    ELSE [self |-> introspect_loop(g, g.channel_names), tag |-> "Ok",
          value |-> [name \in {p[1] : p \in g.channel_names} |->
                        LET it == Channel_iter(CellOf(g, BiMap_get_by_left(g.channel_names, name)).value) IN
                        [j \in 1..Len(it) |-> Debug_fmt(g.type[2], it[j][2])]]]

\* DynChannelGroup::read_channel_dyn: self.channels[raw_id].borrow(); the
\* index and the borrow both panic instead of returning an error.
ChannelGroup_read_channel_dyn(g, id) ==
    IF ~SlotMap_contains_key(g.channels, id)
    THEN [self |-> g, tag |-> "Panic", id |-> NoId]
    ELSE LET b == try_borrow(CellOf(g, id)) IN
         IF b.tag = "Ok"
         THEN [self |-> SetCell(g, id, b.self), tag |-> "Ok", id |-> id]
         ELSE [self |-> g, tag |-> "Panic", id |-> NoId]

\* A variant of write_channel_dyn that takes the cell with a shared borrow.
ChannelGroup_write_channel_dyn_shared(g, id) ==
    ChannelGroup_read_channel_dyn(g, id)

\* DynChannelGroup::write_channel_dyn: self.channels[raw_id].borrow_mut()
ChannelGroup_write_channel_dyn(g, id) ==
    IF ~SlotMap_contains_key(g.channels, id)
    THEN [self |-> g, tag |-> "Panic", id |-> NoId]
    ELSE LET b == try_borrow_mut(CellOf(g, id)) IN
         IF b.tag = "Ok"
         THEN [self |-> SetCell(g, id, b.self), tag |-> "Ok", id |-> id]
         ELSE [self |-> g, tag |-> "Panic", id |-> NoId]

\* #[derive(Clone)] for ChannelGroup: the name table and the arena, cloned.
ChannelGroup_clone(g) ==
    LET c == SlotMap_clone(g.channels) IN
    [self |-> [g EXCEPT !.channels = c.self], tag |-> c.tag]

(* ---------------------------- MeshChannels ----------------------------- *)
\* The store: a map from (ChannelKeyType, ChannelValueType) to a boxed group.

MeshChannels_default == << >>

HasGroup(mc, key) == key \in DOMAIN mc

\* MeshChannels::downcast / downcast_mut: the group as ChannelGroup<K, V>,
\* or the unreachable!() branch when the box holds another instantiation.
downcast(g, key) == IF g.type = key THEN "Ok" ELSE "Panic"

\* A variant of group_or_default that boxes the Vec3 instantiation whatever V is.
group_or_default_of_vec3(mc, key) ==
    IF HasGroup(mc, key) THEN mc
    ELSE [k \in DOMAIN mc \cup {key} |->
             IF k = key THEN ChannelGroup_default(key[1], "Vec3") ELSE mc[k]]

\* group_or_default: the entry of key_of::<K, V>(), inserted as
\* ChannelGroup::<K, V>::default() when absent.
group_or_default(mc, key) ==
    IF HasGroup(mc, key) THEN mc
    ELSE [k \in DOMAIN mc \cup {key} |->
             IF k = key THEN ChannelGroup_default(key[1], key[2]) ELSE mc[k]]

\* A variant that puts the result into every group of the store.
Forward_to_all(mc, key, r) ==
    [self |-> [k \in DOMAIN mc |-> r.self], tag |-> r.tag, id |-> r.id]

\* Put the group operation's result r back into the store.
Forward(mc, key, r) ==
    [self |-> [mc EXCEPT ![key] = r.self], tag |-> r.tag, id |-> r.id]

NoGroup(mc) == [self |-> mc, tag |-> "NotFound", id |-> NoId]

Unreachable(mc) == [self |-> mc, tag |-> "Panic", id |-> NoId]

MeshChannels_ensure_channel(mc, key, name) ==
    LET m == group_or_default(mc, key) IN
    IF downcast(m[key], key) = "Panic" THEN Unreachable(m)
    ELSE Forward(m, key, ChannelGroup_ensure_channel(m[key], name))

MeshChannels_create_channel(mc, key, name) ==
    LET m == group_or_default(mc, key) IN
    IF downcast(m[key], key) = "Panic" THEN Unreachable(m)
    ELSE Forward(m, key, ChannelGroup_create_channel(m[key], name))

\* A variant of remove_channel that reaches the group with group_or_default.
MeshChannels_remove_channel_or_default(mc, key, id) ==
    LET m == group_or_default(mc, key) IN
    IF downcast(m[key], key) = "Panic" THEN Unreachable(m)
    ELSE Forward(m, key, ChannelGroup_remove_channel(m[key], id))

MeshChannels_remove_channel(mc, key, id) ==
    IF ~HasGroup(mc, key) THEN NoGroup(mc)
    ELSE IF downcast(mc[key], key) = "Panic" THEN Unreachable(mc)
    ELSE Forward(mc, key, ChannelGroup_remove_channel(mc[key], id))

MeshChannels_read_channel(mc, key, id) ==
    IF ~HasGroup(mc, key) THEN NoGroup(mc)
    ELSE IF downcast(mc[key], key) = "Panic" THEN Unreachable(mc)
    ELSE Forward(mc, key, ChannelGroup_read_channel(mc[key], id))

MeshChannels_write_channel(mc, key, id) ==
    IF ~HasGroup(mc, key) THEN NoGroup(mc)
    ELSE IF downcast(mc[key], key) = "Panic" THEN Unreachable(mc)
    ELSE Forward(mc, key, ChannelGroup_write_channel(mc[key], id))

MeshChannels_channel_id(mc, key, name) ==
    IF ~HasGroup(mc, key) THEN [tag |-> "None", id |-> NoId]
    ELSE ChannelGroup_channel_id(mc[key], name)

MeshChannels_channel_name(mc, key, id) ==
    IF ~HasGroup(mc, key) THEN [tag |-> "None", name |-> "-"]
    ELSE ChannelGroup_channel_name(mc[key], id)

MeshChannels_read_channel_by_name(mc, key, name) ==
    IF ~HasGroup(mc, key) THEN NoGroup(mc)
    ELSE IF downcast(mc[key], key) = "Panic" THEN Unreachable(mc)
    ELSE LET c == ChannelGroup_channel_id(mc[key], name) IN
         IF c.tag = "None" THEN NoGroup(mc)
         ELSE Forward(mc, key, ChannelGroup_read_channel(mc[key], c.id))

MeshChannels_write_channel_by_name(mc, key, name) ==
    IF ~HasGroup(mc, key) THEN NoGroup(mc)
    ELSE IF downcast(mc[key], key) = "Panic" THEN Unreachable(mc)
    ELSE LET c == ChannelGroup_channel_id(mc[key], name) IN
         IF c.tag = "None" THEN NoGroup(mc)
         ELSE Forward(mc, key, ChannelGroup_write_channel(mc[key], c.id))

\* The arms of do_match! in ensure_group_dyn: (K::kt, V::vt) => ret!(kt, vt).
do_match ==
    {<<"VertexId", "Vec2">>, <<"VertexId", "Vec3">>, <<"VertexId", "Vec4">>,
     <<"VertexId", "f32">>, <<"VertexId", "bool">>,
     <<"FaceId", "Vec2">>, <<"FaceId", "Vec3">>, <<"FaceId", "Vec4">>,
     <<"FaceId", "f32">>, <<"FaceId", "bool">>,
     <<"HalfEdgeId", "Vec2">>, <<"HalfEdgeId", "Vec3">>, <<"HalfEdgeId", "Vec4">>,
     <<"HalfEdgeId", "f32">>, <<"HalfEdgeId", "bool">>}

\* A variant of ensure_group_dyn whose arms all take the Vec3 group of the key type.
ensure_group_dyn_of_vec3(mc, kty, vty) ==
    [self |-> group_or_default(mc, key_of(kty, "Vec3")), at |-> key_of(kty, "Vec3")]

\* ensure_group_dyn: the arm matching (kty, vty) is
\* self.group_or_default::<kt, vt>() as &mut dyn DynChannelGroup.  The result
\* is the store and the key of the group the reference returned points to.
ensure_group_dyn(mc, kty, vty) ==
    LET arm == CHOOSE a \in do_match : a[1] = kty /\ a[2] = vty
        key == key_of(arm[1], arm[2]) IN
    [self |-> group_or_default(mc, key), at |-> key]

\* ensure_channel_dyn: ensure_channel_dyn(name) on the group ensure_group_dyn returned.
MeshChannels_ensure_channel_dyn(mc, kty, vty, name) ==
    LET e == ensure_group_dyn(mc, kty, vty) IN
    IF downcast(e.self[e.at], e.at) = "Panic" THEN Unreachable(e.self)
    ELSE Forward(e.self, e.at, ChannelGroup_ensure_channel(e.self[e.at], name))

MeshChannels_dyn_read_channel_by_name(mc, kty, vty, name) ==
    LET key == <<kty, vty>> IN
    IF ~HasGroup(mc, key) THEN NoGroup(mc)
    ELSE LET c == ChannelGroup_channel_id(mc[key], name) IN
         IF c.tag = "None" THEN NoGroup(mc)
         ELSE Forward(mc, key, ChannelGroup_read_channel_dyn(mc[key], c.id))

MeshChannels_dyn_write_channel_by_name(mc, kty, vty, name) ==
    LET key == <<kty, vty>> IN
    IF ~HasGroup(mc, key) THEN NoGroup(mc)
    ELSE LET c == ChannelGroup_channel_id(mc[key], name) IN
         IF c.tag = "None" THEN NoGroup(mc)
         ELSE Forward(mc, key, ChannelGroup_write_channel_dyn(mc[key], c.id))

\* MeshChannels::introspect: every group's introspect, by key.
MeshChannels_introspect(mc) ==
    IF \E key \in DOMAIN mc : ChannelGroup_introspect(mc[key]).tag # "Ok"
    THEN [self |-> mc, tag |-> "Panic", value |-> << >>]
    ELSE [self |-> [key \in DOMAIN mc |-> ChannelGroup_introspect(mc[key]).self],
          tag |-> "Ok",
          value |-> [key \in DOMAIN mc |-> ChannelGroup_introspect(mc[key]).value]]

\* #[derive(Clone)] for MeshChannels: the map with every boxed group cloned
\* (dyn_clone::clone_trait_object!).
MeshChannels_clone(mc) ==
    [self |-> [key \in DOMAIN mc |-> ChannelGroup_clone(mc[key]).self],
     tag |-> IF \E key \in DOMAIN mc : ChannelGroup_clone(mc[key]).tag = "Panic"
             THEN "Panic" ELSE "Ok"]

(* ------------------------- typed-value bridge -------------------------- *)
\* Foreign (Lua) values: a shape and a number.  Identifiers cross as the
\* integer ffi encoding of the key (version in the high half, index in the
\* low half); values cross in the shape of their value type.

LuaNil == [shape |-> "Nil", n |-> 0]

\* A variant of the encoding that keeps the index only.
as_ffi_index_only(key) == key.idx

\* KeyData::as_ffi
as_ffi(key) == key.version * IdxMod + key.idx

\* KeyData::from_ffi: the version is forced odd.
from_ffi(n) ==
    LET v == n \div IdxMod IN
    [idx |-> n % IdxMod, version |-> IF v % 2 = 0 THEN v + 1 ELSE v]

Key_cast_to_lua(key) == [shape |-> "Integer", n |-> as_ffi(key)]

Key_cast_from_lua(lv) ==
    IF lv.shape = "Integer" THEN [tag |-> "Ok", key |-> from_ffi(lv.n)]
    ELSE [tag |-> "TypeMismatch", key |-> NullKey]

ValueShape(vty) ==
    IF vty = "f32" THEN "Number" ELSE IF vty = "bool" THEN "Boolean" ELSE vty

Value_cast_to_lua(vty, v) == [shape |-> ValueShape(vty), n |-> v]

Value_cast_from_lua(vty, lv) ==
    IF lv.shape = ValueShape(vty) THEN [tag |-> "Ok", val |-> lv.n]
    ELSE [tag |-> "TypeMismatch", val |-> DefaultValue]

\* FromToLua::cast_to_lua of type ty (impl_from_to_lua!): an identifier type
\* or a value type.
cast_to_lua(ty, x) ==
    IF ty \in ChannelKeyType THEN Key_cast_to_lua(x) ELSE Value_cast_to_lua(ty, x)

\* FromToLua::cast_from_lua of type ty: the error of the conversion, or Ok(x).
cast_from_lua(ty, lv) ==
    IF ty \in ChannelKeyType
    THEN [tag |-> Key_cast_from_lua(lv).tag, x |-> Key_cast_from_lua(lv).key]
    ELSE [tag |-> Value_cast_from_lua(ty, lv).tag, x |-> Value_cast_from_lua(ty, lv).val]

\* Foreign ids a script passes: the encodings of the element keys, and nil.
LuaKeys == {Key_cast_to_lua(k) : k \in ElemKeys} \cup {LuaNil}

\* A variant of get_lua that reads with Channel::get and reports an id
\* without entry as an error.
Channel_get_lua_stored_only(ch, vty, lkey) ==
    LET k == Key_cast_from_lua(lkey) IN
    IF k.tag # "Ok" THEN [tag |-> k.tag, lval |-> LuaNil]
    ELSE IF Channel_get(ch, k.key).tag = "None" THEN [tag |-> "NotFound", lval |-> LuaNil]
    ELSE [tag |-> "Ok", lval |-> Value_cast_to_lua(vty, Channel_get(ch, k.key).val)]

\* DynChannel::get_lua for Channel<K, V>
Channel_get_lua(ch, vty, lkey) ==
    LET k == Key_cast_from_lua(lkey) IN
    IF k.tag # "Ok" THEN [tag |-> k.tag, lval |-> LuaNil]
    ELSE [tag |-> "Ok", lval |-> Value_cast_to_lua(vty, Channel_index(ch, k.key))]

\* Foreign values a script passes for value type vty, and nil.
LuaValues(vty) == {Value_cast_to_lua(vty, v) : v \in Values} \cup {LuaNil}

\* A variant of set_lua that stores the default for a value that does not convert.
Channel_set_lua_or_default(ch, vty, lkey, lval) ==
    LET k == Key_cast_from_lua(lkey)
        v == Value_cast_from_lua(vty, lval) IN
    IF k.tag # "Ok" THEN [self |-> ch, tag |-> k.tag]
    ELSE Channel_index_mut(ch, k.key, v.val)

\* DynChannel::set_lua for Channel<K, V>: the key is converted, then the
\* value (the right-hand side of the assignment), then self[key] is assigned.
Channel_set_lua(ch, vty, lkey, lval) ==
    LET k == Key_cast_from_lua(lkey)
        v == Value_cast_from_lua(vty, lval) IN
    IF k.tag # "Ok" THEN [self |-> ch, tag |-> k.tag]
    ELSE IF v.tag # "Ok" THEN [self |-> ch, tag |-> v.tag]
    ELSE Channel_index_mut(ch, k.key, v.val)

(* --------------------------- DefaultChannels --------------------------- *)

\* DefaultChannels::with_position: the handle that
\* ensure_channel::<VertexId, Vec3>("position") returns is cached.
DefaultChannels_with_position(mc) ==
    LET r == MeshChannels_ensure_channel(mc, key_of("VertexId", "Vec3"), "position") IN
    [self |-> r.self, position |-> r.id]

(* ------------------------------- state --------------------------------- *)

VARIABLES
    mesh_channels,  \* the MeshChannels of one mesh
    guards,         \* bag of the Ref / RefMut guards the callers hold
    issued,         \* history: <<key, name, id>> handed out for names now registered
    removed,        \* history: <<key, id>> of the channels removed so far
    shadow,         \* history: <<key, id, elem>> -> the value last stored under it
    last,           \* the last call: its operation, arguments and result
    other           \* the store of a second mesh (a clone), with its history

vars == <<mesh_channels, guards, issued, removed, shadow, last, other>>

NoKey == <<"-", "-">>

NoElem == [idx |-> 0, version |-> 0]

\* A store with its history, as `other` keeps the second mesh's.
Mesh(mc, iss, rem, sh, made) ==
    [mesh_channels |-> mc, issued |-> iss, removed |-> rem, shadow |-> sh, made |-> made]

\* No second mesh was made.
NoMesh == Mesh(MeshChannels_default, {}, {}, << >>, FALSE)

Call(op, key, name, id, elem, val, tag, rid, rval, rshape) ==
    [op |-> op, key |-> key, name |-> name, id |-> id, elem |-> elem, val |-> val,
     tag |-> tag, rid |-> rid, rval |-> rval, rshape |-> rshape]

\* A guard (Ref or RefMut): the channel it borrows, shared or exclusive.
Guard(key, id, mode) == [key |-> key, id |-> id, mode |-> mode]

Held(d) == BagIn(d, guards)

\* A variant in which a structural operation may run while guards are out.
NoGuards_unchecked == TRUE

\* No guard borrowed from the store is alive.
NoGuards == guards = EmptyBag

\* A panic unwinds out of the caller: nothing runs after it.
Running == last.tag # "Panic"

Init ==
    /\ mesh_channels = MeshChannels_default
    /\ guards = EmptyBag
    /\ issued = {}
    /\ removed = {}
    /\ shadow = << >>
    /\ last = Call("new", NoKey, "-", NoId, NoElem, 0, "Ok", NoId, 0, "-")
    /\ other = NoMesh

\* The id issued for name in the group of key, if one is.
IssuedFor(key, name) == {t \in issued : t[1] = key /\ t[2] = name}

\* A registering call returned r: the id becomes the one issued for name,
\* unless one already is.
Issue(key, name, r) ==
    IF r.tag = "Ok" /\ IssuedFor(key, name) = {}
    THEN issued \cup {<<key, name, r.id>>}
    ELSE issued

\* Allocations a slot map has served: each generation of each slot is one.
RECURSIVE Generations(_)
Generations(slots) ==
    IF slots = << >> THEN 0
    ELSE (Head(slots).version + 1) \div 2 + Generations(Tail(slots))

Allocs(mc) ==
    LET RECURSIVE Sum(_)
        Sum(keys) ==
            IF keys = {} THEN 0
            ELSE LET k == CHOOSE x \in keys : TRUE IN
                 Generations(mc[k].channels.slots) + Sum(keys \ {k})
    IN Sum(DOMAIN mc)

\* The allocation of a channel for name stays within the workload modelled.
CanAllocate(mc, key, name) ==
    IF HasGroup(mc, key) /\ BiMap_contains_left(mc[key].channel_names, name) THEN TRUE
    ELSE /\ Allocs(mc) < MaxAllocs
         /\ HasGroup(mc, key) =>
                SlotMap_next_key(mc[key].channels).version <= 2 * MaxGen - 1

ChannelOf(mc, key, id) == CellOf(mc[key], id).value

\* Entries stored in the channels of the store.
Entries(mc) ==
    Cardinality({<<k, i, e>> \in (DOMAIN mc) \X (1..Cardinality(Names)) \X (1..MaxElemIdx) :
                    /\ i <= Len(mc[k].channels.slots)
                    /\ mc[k].channels.slots[i].cell.value.inner[e].version # 0})

(* --------------------- structural operations (&mut self) --------------- *)
\* They take the store by exclusive reference, which the compiler grants
\* only while no guard borrowed from the store is alive.

EnsureChannel(key, name) ==
    /\ Running /\ NoGuards
    /\ CanAllocate(mesh_channels, key, name)
    /\ LET r == MeshChannels_ensure_channel(mesh_channels, key, name) IN
       /\ mesh_channels' = r.self
       /\ last' = Call("ensure_channel", key, name, NoId, NoElem, 0, r.tag, r.id, 0, "-")
       /\ issued' = Issue(key, name, r)
    /\ UNCHANGED <<guards, removed, shadow, other>>

CreateChannel(key, name) ==
    /\ Running /\ NoGuards
    /\ CanAllocate(mesh_channels, key, name)
    /\ LET r == MeshChannels_create_channel(mesh_channels, key, name) IN
       /\ mesh_channels' = r.self
       /\ last' = Call("create_channel", key, name, NoId, NoElem, 0, r.tag, r.id, 0, "-")
       /\ issued' = Issue(key, name, r)
    /\ UNCHANGED <<guards, removed, shadow, other>>

EnsureChannelDyn(key, name) ==
    /\ Running /\ NoGuards
    /\ CanAllocate(mesh_channels, key, name)
    /\ LET r == MeshChannels_ensure_channel_dyn(mesh_channels, key[1], key[2], name) IN
       /\ mesh_channels' = r.self
       /\ last' = Call("ensure_channel_dyn", key, name, NoId, NoElem, 0, r.tag, r.id, 0, "-")
       /\ issued' = Issue(key, name, r)
    /\ UNCHANGED <<guards, removed, shadow, other>>

\* last.name records the name the channel was registered under.
RemoveChannel(key, id) ==
    /\ Running /\ NoGuards
    /\ LET r == MeshChannels_remove_channel(mesh_channels, key, id)
           n == MeshChannels_channel_name(mesh_channels, key, id) IN
       /\ mesh_channels' = r.self
       /\ last' = Call("remove_channel", key, n.name, id, NoElem, 0, r.tag, r.id, 0, "-")
       /\ removed' = IF r.tag = "Ok" THEN removed \cup {<<key, id>>} ELSE removed
       /\ issued' = IF r.tag = "Ok"
                    THEN {t \in issued : ~(t[1] = key /\ t[3] = id)}
                    ELSE issued
       /\ shadow' = IF r.tag = "Ok"
                    THEN [x \in {y \in DOMAIN shadow : ~(y[1] = key /\ y[2] = id)} |-> shadow[x]]
                    ELSE shadow
    /\ UNCHANGED <<guards, other>>

(* ------------------------------ lookups -------------------------------- *)

ChannelId(key, name) ==
    /\ Running
    /\ LET r == MeshChannels_channel_id(mesh_channels, key, name) IN
       last' = Call("channel_id", key, name, NoId, NoElem, 0, r.tag, r.id, 0, "-")
    /\ UNCHANGED <<mesh_channels, guards, issued, removed, shadow, other>>

\* last.name records the name returned.
ChannelName(key, id) ==
    /\ Running
    /\ LET r == MeshChannels_channel_name(mesh_channels, key, id) IN
       last' = Call("channel_name", key, r.name, id, NoElem, 0, r.tag, NoId, 0, "-")
    /\ UNCHANGED <<mesh_channels, guards, issued, removed, shadow, other>>

Introspect ==
    /\ Running
    /\ LET r == MeshChannels_introspect(mesh_channels) IN
       /\ mesh_channels' = r.self
       /\ last' = Call("introspect", NoKey, "-", NoId, NoElem, 0, r.tag, NoId, 0, "-")
    /\ UNCHANGED <<guards, issued, removed, shadow, other>>

(* --------------------------- borrowing (&self) ------------------------- *)

\* The outcome r of a borrow request: the store with the borrow flag set and,
\* on success, one more guard in the callers' hands.
Borrowed(op, key, name, id, r, mode) ==
    /\ r.tag = "Ok" => BagCardinality(guards) < MaxGuards
    /\ mesh_channels' = r.self
    /\ guards' = IF r.tag = "Ok"
                 THEN guards (+) SetToBag({Guard(key, r.id, mode)})
                 ELSE guards
    /\ last' = Call(op, key, name, id, NoElem, 0, r.tag, r.id, 0, "-")
    /\ UNCHANGED <<issued, removed, shadow, other>>

ReadChannel(key, id) ==
    /\ Running
    /\ Borrowed("read_channel", key, "-", id,
                MeshChannels_read_channel(mesh_channels, key, id), "read")

WriteChannel(key, id) ==
    /\ Running
    /\ Borrowed("write_channel", key, "-", id,
                MeshChannels_write_channel(mesh_channels, key, id), "write")

ReadChannelByName(key, name) ==
    /\ Running
    /\ Borrowed("read_channel_by_name", key, name, NoId,
                MeshChannels_read_channel_by_name(mesh_channels, key, name),
                "read")

WriteChannelByName(key, name) ==
    /\ Running
    /\ Borrowed("write_channel_by_name", key, name, NoId,
                MeshChannels_write_channel_by_name(mesh_channels, key, name),
                "write")

DynReadChannelByName(key, name) ==
    /\ Running
    /\ Borrowed("dyn_read_channel_by_name", key, name, NoId,
                MeshChannels_dyn_read_channel_by_name(mesh_channels, key[1], key[2], name),
                "read")

DynWriteChannelByName(key, name) ==
    /\ Running
    /\ Borrowed("dyn_write_channel_by_name", key, name, NoId,
                MeshChannels_dyn_write_channel_by_name(mesh_channels, key[1], key[2], name),
                "write")

\* A guard goes out of scope.
DropGuard(d) ==
    /\ Running
    /\ Held(d)
    /\ LET cell == CellOf(mesh_channels[d.key], d.id) IN
       mesh_channels' = [mesh_channels EXCEPT ![d.key] =
           SetCell(@, d.id, IF d.mode = "read" THEN Ref_drop(cell) ELSE RefMut_drop(cell))]
    /\ guards' = guards (-) SetToBag({d})
    /\ last' = Call("drop", d.key, "-", d.id, NoElem, 0, "Ok", NoId, 0, d.mode)
    /\ UNCHANGED <<issued, removed, shadow, other>>

(* ------------------------ access through a guard ----------------------- *)

\* channel[elem] through a typed guard (Deref of Ref or RefMut).
Index(d, elem) ==
    /\ Running
    /\ Held(d)
    /\ last' = Call("index", d.key, "-", d.id, elem, 0, "Ok", NoId,
                    Channel_index(ChannelOf(mesh_channels, d.key, d.id), elem), "-")
    /\ UNCHANGED <<mesh_channels, guards, issued, removed, shadow, other>>

\* channel.get(elem) through a typed guard.
Get(d, elem) ==
    /\ Running
    /\ Held(d)
    /\ LET r == Channel_get(ChannelOf(mesh_channels, d.key, d.id), elem) IN
       last' = Call("get", d.key, "-", d.id, elem, 0, r.tag, NoId, r.val, "-")
    /\ UNCHANGED <<mesh_channels, guards, issued, removed, shadow, other>>

\* channel[elem] = val through a typed write guard (DerefMut of RefMut).
IndexMut(d, elem, val) ==
    /\ Running
    /\ Held(d) /\ d.mode = "write"
    /\ LET r == Channel_index_mut(ChannelOf(mesh_channels, d.key, d.id), elem, val) IN
       /\ mesh_channels' = [mesh_channels EXCEPT ![d.key] =
              SetCell(@, d.id, [CellOf(@, d.id) EXCEPT !.value = r.self])]
       /\ Entries(mesh_channels') <= MaxEntries
       /\ shadow' = IF r.tag = "Ok"
                    THEN [x \in DOMAIN shadow \cup {<<d.key, d.id, elem>>} |->
                             IF x = <<d.key, d.id, elem>> THEN val ELSE shadow[x]]
                    ELSE shadow
       /\ last' = Call("index_mut", d.key, "-", d.id, elem, val, r.tag, NoId, 0, "-")
    /\ UNCHANGED <<guards, issued, removed, other>>

\* The foreign id as the call record keeps it: its number, or -1 when it
\* is not an integer.
FfiOf(lkey) == IF lkey.shape = "Integer" THEN lkey.n ELSE -1

\* mesh.dyn_read_channel_by_name(kty, vty, name)?.get_lua(lua, lkey): the
\* handle is a temporary, dropped at the end of the statement.  The call
\* recorded is get_lua when the handle was returned, else the failed
\* dyn_read_channel_by_name.
DynGet(key, name, lkey) ==
    /\ Running
    /\ LET r == MeshChannels_dyn_read_channel_by_name(mesh_channels, key[1], key[2], name) IN
       IF r.tag # "Ok"
       THEN last' = Call("dyn_read_channel_by_name", key, name, NoId, NoElem, 0,
                         r.tag, NoId, 0, "-")
       ELSE LET g == Channel_get_lua(ChannelOf(mesh_channels, key, r.id), key[2], lkey)
                k == Key_cast_from_lua(lkey) IN
            last' = Call("get_lua", key, name, r.id,
                         IF k.tag = "Ok" THEN k.key ELSE NoElem, FfiOf(lkey),
                         g.tag, NoId, g.lval.n, g.lval.shape)
    /\ UNCHANGED <<mesh_channels, guards, issued, removed, shadow, other>>

\* The store with the channel behind guard d replaced by ch.
WithChannel(mc, key, id, ch) ==
    [mc EXCEPT ![key] = SetCell(@, id, [CellOf(@, id) EXCEPT !.value = ch])]

\* shadow after a store of val under x, made iff ok.
Stored(ok, x, val) ==
    IF ok THEN [y \in DOMAIN shadow \cup {x} |-> IF y = x THEN val ELSE shadow[y]]
    ELSE shadow

\* channel.set(elem, val) through a typed write guard.
Set(d, elem, val) ==
    /\ Running
    /\ Held(d) /\ d.mode = "write"
    /\ LET r == Channel_set(ChannelOf(mesh_channels, d.key, d.id), elem, val) IN
       /\ mesh_channels' = WithChannel(mesh_channels, d.key, d.id, r.self)
       /\ shadow' = Stored(r.tag = "Some", <<d.key, d.id, elem>>, val)
       /\ last' = Call("set", d.key, "-", d.id, elem, val, r.tag, NoId, 0, "-")
    /\ UNCHANGED <<guards, issued, removed, other>>

\* if let Some(v) = channel.get_mut(elem) { *v = val } through a typed write guard.
GetMut(d, elem, val) ==
    /\ Running
    /\ Held(d) /\ d.mode = "write"
    /\ LET r == Channel_get_mut(ChannelOf(mesh_channels, d.key, d.id), elem)
           ch == IF r.tag = "Some" THEN [r.self EXCEPT !.inner[elem.idx].value = val]
                 ELSE r.self IN
       /\ mesh_channels' = WithChannel(mesh_channels, d.key, d.id, ch)
       /\ Entries(mesh_channels') <= MaxEntries
       /\ shadow' = Stored(r.tag = "Some", <<d.key, d.id, elem>>, val)
       /\ last' = Call("get_mut", d.key, "-", d.id, elem, val, r.tag, NoId, 0, "-")
    /\ UNCHANGED <<guards, issued, removed, other>>

\* mesh.dyn_write_channel_by_name(kty, vty, name)?.set_lua(lua, lkey, lval):
\* the handle is a temporary, dropped at the end of the statement.  The call
\* recorded is set_lua when the handle was returned, else the failed
\* dyn_write_channel_by_name.
DynSet(key, name, lkey, lval) ==
    /\ Running
    /\ LET r == MeshChannels_dyn_write_channel_by_name(mesh_channels, key[1], key[2], name) IN
       IF r.tag # "Ok"
       THEN /\ last' = Call("dyn_write_channel_by_name", key, name, NoId, NoElem, 0,
                            r.tag, NoId, 0, "-")
            /\ UNCHANGED <<mesh_channels, shadow>>
       ELSE LET g == Channel_set_lua(ChannelOf(mesh_channels, key, r.id), key[2], lkey, lval)
                k == Key_cast_from_lua(lkey) IN
            /\ mesh_channels' = WithChannel(mesh_channels, key, r.id, g.self)
            /\ Entries(mesh_channels') <= MaxEntries
            /\ shadow' = Stored(g.tag = "Ok", <<key, r.id, k.key>>, lval.n)
            /\ last' = Call("set_lua", key, name, r.id,
                            IF k.tag = "Ok" THEN k.key ELSE NoElem, FfiOf(lkey),
                            g.tag, NoId, lval.n, lval.shape)
    /\ UNCHANGED <<guards, issued, removed, other>>

(* ---------------------------- specification ---------------------------- *)

HeldGuards == BagToSet(guards)

\* Registry and borrow operations, called with keys from Keys and names from Nms.
Registry(Keys, Nms) ==
    \/ \E key \in Keys, name \in Nms : EnsureChannel(key, name)
    \/ \E key \in Keys, name \in Nms : CreateChannel(key, name)
    \/ \E key \in Keys, name \in Nms : EnsureChannelDyn(key, name)
    \/ \E key \in Keys, id \in RawChannelIds : RemoveChannel(key, id)
    \/ \E key \in Keys, name \in Nms : ChannelId(key, name)
    \/ \E key \in Keys, id \in RawChannelIds : ChannelName(key, id)
    \/ Introspect
    \/ \E key \in Keys, id \in RawChannelIds : ReadChannel(key, id)
    \/ \E key \in Keys, id \in RawChannelIds : WriteChannel(key, id)
    \/ \E key \in Keys, name \in Nms : ReadChannelByName(key, name)
    \/ \E key \in Keys, name \in Nms : WriteChannelByName(key, name)
    \/ \E key \in Keys, name \in Nms : DynReadChannelByName(key, name)
    \/ \E key \in Keys, name \in Nms : DynWriteChannelByName(key, name)
    \/ \E d \in HeldGuards : DropGuard(d)

\* The pairing whose channel data the callers read and write.
DataKeys == {<<"VertexId", "Vec3">>}

\* Reads and writes of channel data through the guards held.
Data ==
    \/ \E d \in HeldGuards, elem \in ElemKeys : Index(d, elem)
    \/ \E d \in HeldGuards, elem \in ElemKeys : Get(d, elem)
    \/ \E d \in HeldGuards, elem \in ElemKeys, val \in Values : IndexMut(d, elem, val)
    \/ \E key \in DataKeys, name \in Names, lkey \in LuaKeys : DynGet(key, name, lkey)
    \/ Introspect

\* The registry and the borrow discipline over every pairing and name.
Next == Registry(GroupKeys, Names)

Spec == Init /\ [][Next]_vars

\* The store of a mesh with its position channel (DefaultChannels::with_position)
\* and a second channel of the same pairing.
DataInit ==
    /\ mesh_channels =
         MeshChannels_ensure_channel(
             MeshChannels_ensure_channel(MeshChannels_default,
                                         key_of("VertexId", "Vec3"), "position").self,
             key_of("VertexId", "Vec3"), "size").self
    /\ guards = EmptyBag
    /\ issued = {<<key_of("VertexId", "Vec3"), "position", [idx |-> 1, version |-> 1]>>,
                 <<key_of("VertexId", "Vec3"), "size", [idx |-> 2, version |-> 1]>>}
    /\ removed = {}
    /\ shadow = << >>
    /\ last = Call("new", NoKey, "-", NoId, NoElem, 0, "Ok", NoId, 0, "-")
    /\ other = NoMesh

\* The registry operations the data accesses go through; the callers take
\* one guard at a time, each in a scope of its own.
DataRegistry ==
    \/ \E key \in DataKeys, id \in RawChannelIds : RemoveChannel(key, id)
    \/ \E key \in DataKeys, id \in RawChannelIds : NoGuards /\ ReadChannel(key, id)
    \/ \E key \in DataKeys, id \in RawChannelIds : NoGuards /\ WriteChannel(key, id)
    \/ \E d \in HeldGuards : DropGuard(d)

DataNext == DataRegistry \/ Data

DataSpec == DataInit /\ [][DataNext]_vars

\* Mutations of channel data: a write guard at a time, and the type-erased
\* write, on the store of DataInit.
Mutate ==
    \/ \E key \in DataKeys, id \in RawChannelIds : NoGuards /\ WriteChannel(key, id)
    \/ \E d \in HeldGuards : DropGuard(d)
    \/ \E d \in HeldGuards, elem \in ElemKeys, val \in Values : Set(d, elem, val)
    \/ \E d \in HeldGuards, elem \in ElemKeys, val \in Values : GetMut(d, elem, val)
    \/ \E d \in HeldGuards, elem \in ElemKeys, val \in Values : IndexMut(d, elem, val)
    \/ \E key \in DataKeys, name \in Names, lkey \in LuaKeys :
          \E lval \in LuaValues(key[2]) : NoGuards /\ DynSet(key, name, lkey, lval)

MutateSpec == DataInit /\ [][Mutate]_vars

\* The name id is registered under in the group of key ("-" when none).
NameOf(key, id) == MeshChannels_channel_name(mesh_channels, key, id).name

\* The typed path and the type-erased path side by side: the host registers
\* channels on either path, a guard at a time; "position" is written through
\* typed write guards and read with get_lua, "size" is written with set_lua
\* and read through typed guards.
Bridge ==
    \/ \E key \in DataKeys, name \in Names : EnsureChannel(key, name)
    \/ \E key \in DataKeys, name \in Names : EnsureChannelDyn(key, name)
    \/ \E key \in DataKeys, id \in RawChannelIds : NoGuards /\ ReadChannel(key, id)
    \/ \E key \in DataKeys, id \in RawChannelIds : NoGuards /\ WriteChannel(key, id)
    \/ \E d \in HeldGuards : DropGuard(d)
    \/ \E d \in HeldGuards, elem \in ElemKeys :
          NameOf(d.key, d.id) = "size" /\ Index(d, elem)
    \/ \E d \in HeldGuards, elem \in ElemKeys, val \in Values :
          NameOf(d.key, d.id) = "position" /\ IndexMut(d, elem, val)
    \/ \E key \in DataKeys, lkey \in LuaKeys : DynGet(key, "position", lkey)
    \/ \E key \in DataKeys, lkey \in LuaKeys :
          \E lval \in LuaValues(key[2]) : DynSet(key, "size", lkey, lval)

BridgeSpec == Init /\ [][Bridge]_vars

\* Channels of two pairings, registered, removed and written side by side;
\* the first element is the one written.
Groups ==
    \/ \E key \in GroupKeys, name \in Names : EnsureChannel(key, name)
    \/ \E key \in GroupKeys, name \in Names : CreateChannel(key, name)
    \/ \E key \in GroupKeys, id \in RawChannelIds : RemoveChannel(key, id)
    \/ \E key \in GroupKeys, name \in Names : NoGuards /\ WriteChannelByName(key, name)
    \/ \E d \in HeldGuards : DropGuard(d)
    \/ \E d \in HeldGuards, val \in Values : IndexMut(d, [idx |-> 1, version |-> 1], val)

GroupsSpec == Init /\ [][Groups]_vars

(* ------------------------------ two meshes ----------------------------- *)

\* mesh.clone(): a second mesh whose store is the clone of this one's.
Clone ==
    /\ Running
    /\ ~other.made
    /\ LET r == MeshChannels_clone(mesh_channels) IN
       /\ last' = Call("clone", NoKey, "-", NoId, NoElem, 0, r.tag, NoId, 0, "-")
       /\ other' = IF r.tag = "Ok" THEN Mesh(r.self, issued, removed, shadow, TRUE)
                   ELSE other
    /\ UNCHANGED <<mesh_channels, guards, issued, removed, shadow>>

\* The callers turn to the other mesh: its store is the receiver of the
\* operations that follow.
Swap ==
    /\ Running /\ NoGuards
    /\ other.made
    /\ mesh_channels' = other.mesh_channels
    /\ issued' = other.issued
    /\ removed' = other.removed
    /\ shadow' = other.shadow
    /\ other' = Mesh(mesh_channels, issued, removed, shadow, TRUE)
    /\ last' = Call("swap", NoKey, "-", NoId, NoElem, 0, "Ok", NoId, 0, "-")
    /\ UNCHANGED guards

\* A mesh and its clone, each registering, removing, borrowing and writing
\* channels of its own store: "size" is registered again after a removal,
\* and the first element is the one written.
TwoMeshes ==
    \/ Clone
    \/ Swap
    \/ \E key \in DataKeys : EnsureChannel(key, "size")
    \/ \E key \in DataKeys : CreateChannel(key, "size")
    \/ \E key \in DataKeys, id \in RawChannelIds : RemoveChannel(key, id)
    \/ \E key \in DataKeys, id \in RawChannelIds : NoGuards /\ ReadChannel(key, id)
    \/ \E key \in DataKeys, id \in RawChannelIds : NoGuards /\ WriteChannel(key, id)
    \/ \E d \in HeldGuards : DropGuard(d)
    \/ \E d \in HeldGuards, val \in Values : IndexMut(d, [idx |-> 1, version |-> 1], val)

CloneSpec == DataInit /\ [][TwoMeshes]_vars

(* ---------------------------- conversions ----------------------------- *)

\* The types that implement FromToLua, and the native values of each.
FromToLuaTypes == ChannelKeyType \cup ChannelValueType

Natives(ty) == IF ty \in ChannelKeyType THEN ElemKeys ELSE Values

\* x.cast_to_lua(lua) for x of type ty.  last.key is <<ty, "-">>, last.elem
\* the native value, last.rval and last.rshape the foreign one.
CastToLua(ty, x) ==
    /\ Running
    /\ LET lv == cast_to_lua(ty, x) IN
       last' = Call("cast_to_lua", <<ty, "-">>, "-", NoId, x, 0, "Ok", NoId, lv.n, lv.shape)
    /\ UNCHANGED <<mesh_channels, guards, issued, removed, shadow, other>>

\* T::cast_from_lua(lv, lua) for the foreign value lv the last cast_to_lua
\* made of a value of type last.key[1], as type ty.  last.key is then
\* <<type converted from, ty>>, last.elem the native value converted from and
\* last.rid the native value converted to.
CastFromLua(ty) ==
    /\ Running
    /\ last.op = "cast_to_lua"
    /\ LET r == cast_from_lua(ty, [shape |-> last.rshape, n |-> last.rval]) IN
       last' = Call("cast_from_lua", <<last.key[1], ty>>, "-", NoId, last.elem, 0,
                    r.tag, r.x, last.rval, last.rshape)
    /\ UNCHANGED <<mesh_channels, guards, issued, removed, shadow, other>>

\* Conversions of native values to foreign ones and back.
Cast ==
    \/ \E ty \in FromToLuaTypes : \E x \in Natives(ty) : CastToLua(ty, x)
    \/ \E ty \in FromToLuaTypes : CastFromLua(ty)

CastSpec == Init /\ [][Cast]_vars

(* --------------------------- script library --------------------------- *)

\* The global table Types a script names type tags through.
Types ==
    [n \in {"VertexId", "FaceId", "HalfEdgeId", "Vec3", "f32"} |-> n]

\* Types.n as the script evaluates it: the tag, or nil for an absent field.
Types_get(n) == IF n \in DOMAIN Types THEN Types[n] ELSE "nil"

\* mesh:ensure_channel(Types.kn, Types.vn, name): the arguments are converted
\* to (ChannelKeyType, ChannelValueType, String), which fails on nil, and
\* the method calls ensure_channel_dyn.
ScriptEnsureChannel(kn, vn, name) ==
    /\ Running /\ NoGuards
    /\ LET kty == Types_get(kn)
           vty == Types_get(vn) IN
       IF kty \notin ChannelKeyType \/ vty \notin ChannelValueType
       THEN /\ last' = Call("script_ensure_channel", <<kn, vn>>, name, NoId, NoElem, 0,
                            "TypeMismatch", NoId, 0, "-")
            /\ UNCHANGED <<mesh_channels, issued>>
       ELSE /\ CanAllocate(mesh_channels, key_of(kty, vty), name)
            /\ LET r == MeshChannels_ensure_channel_dyn(mesh_channels, kty, vty, name) IN
               /\ mesh_channels' = r.self
               /\ last' = Call("script_ensure_channel", <<kn, vn>>, name, NoId, NoElem, 0,
                               r.tag, r.id, 0, "-")
               /\ issued' = Issue(key_of(kty, vty), name, r)
    /\ UNCHANGED <<guards, removed, shadow, other>>

\* Every pairing of a kind tag with a value tag.
AllGroupKeys == ChannelKeyType \X ChannelValueType

\* The type-erased registration and lookup over every pairing of tags, from
\* the host and from a script.
Dispatch ==
    \/ \E key \in AllGroupKeys : EnsureChannelDyn(key, "position")
    \/ \E key \in AllGroupKeys : ScriptEnsureChannel(key[1], key[2], "position")
    \/ \E key \in AllGroupKeys : DynReadChannelByName(key, "position")
    \/ \E d \in HeldGuards : DropGuard(d)

DispatchSpec == Init /\ [][Dispatch]_vars

(* ------------------------------- claims -------------------------------- *)

R(key, id) == Guard(key, id, "read")

W(key, id) == Guard(key, id, "write")

Copies(d) == CopiesIn(d, guards)

\* The id is the one issued for a name now registered in the group of key.
Registered(key, id) == \E t \in issued : t[1] = key /\ t[3] = id

\* Channels alive in the store.
LiveChannels(mc) ==
    {<<k, i>> \in (DOMAIN mc) \X (1..Cardinality(Names)) :
        i <= Len(mc[k].channels.slots) /\ mc[k].channels.slots[i].version % 2 = 1}

\* The ids under which a channel holds an entry (the keys Channel::iter yields).
StoredKeys(ch) ==
    {[idx |-> i, version |-> ch.inner[i].version] :
        i \in {j \in DOMAIN ch.inner : ch.inner[j].version # 0}}

\* Write guards on the channel of the last call that were held before it.
PriorWrites ==
    Copies(W(last.key, last.id))
        - (IF last.op = "write_channel" /\ last.tag = "Ok" THEN 1 ELSE 0)

\* C1: while a write guard on C is held, read_channel(C) and write_channel(C)
\* return BorrowConflict; right after the write guard is dropped,
\* read_channel(C) and write_channel(C) succeed.
C1_WriteGuardExcludes ==
    /\ (last.op \in {"read_channel", "write_channel"} /\ PriorWrites > 0)
          => last.tag = "BorrowConflict"
    /\ (last.op = "drop" /\ last.rshape = "write")
          => /\ MeshChannels_read_channel(mesh_channels, last.key, last.id).tag = "Ok"
             /\ MeshChannels_write_channel(mesh_channels, last.key, last.id).tag = "Ok"

C1_Witness ==
    /\ last.op = "read_channel"
    /\ last.tag = "BorrowConflict"
    /\ Copies(W(last.key, last.id)) = 1

\* C2: read_channel(C) on a registered channel succeeds whenever no write
\* guard on C is held, however many read guards on C are held.
C2_ReadGuardsShare ==
    (/\ last.op = "read_channel"
     /\ Registered(last.key, last.id)
     /\ Copies(W(last.key, last.id)) = 0)
        => last.tag = "Ok"

C2_Witness ==
    /\ last.op = "read_channel"
    /\ last.tag = "Ok"
    /\ Copies(R(last.key, last.id)) = 2

\* C3: every channel has no guard, or read guards only, or exactly one write
\* guard and no read guard, whichever access path handed the guards out; the
\* borrow flag of the channel says the same.
C3_BorrowStates ==
    /\ \A d \in BagToSet(guards) : <<d.key, d.id.idx>> \in LiveChannels(mesh_channels)
    /\ \A c \in LiveChannels(mesh_channels) :
          LET slot == mesh_channels[c[1]].channels.slots[c[2]]
              id == [idx |-> c[2], version |-> slot.version]
              r == Copies(R(c[1], id))
              w == Copies(W(c[1], id)) IN
          /\ w <= 1
          /\ w = 1 => r = 0
          /\ slot.cell.borrow = IF w = 1 THEN -1 ELSE r

C3_Witness ==
    /\ last.op = "dyn_write_channel_by_name"
    /\ last.tag = "Ok"
    /\ \E d \in BagToSet(guards) : d.mode = "read"

\* C4: ensure_channel never fails and returns the id issued for the name
\* when it was registered (by ensure_channel or create_channel), and a call
\* for a registered name allocates nothing: there are as many channels as
\* registered names.
C4_EnsureIdempotent ==
    /\ last.op = "ensure_channel"
          => /\ last.tag = "Ok"
             /\ IssuedFor(last.key, last.name) = {<<last.key, last.name, last.rid>>}
    /\ Cardinality(LiveChannels(mesh_channels)) = Cardinality(issued)

\* The id returned is the first of two allocated in the group: the call
\* found the name registered.
C4_Witness ==
    /\ last.op = "ensure_channel"
    /\ last.rid = [idx |-> 1, version |-> 1]
    /\ Generations(mesh_channels[last.key].channels.slots) = 2

\* C5: create_channel(name) fails with AlreadyExists iff name is registered
\* in the (K, V) group at the call, and succeeds otherwise.
C5_CreateFailsIffRegistered ==
    [][last'.op = "create_channel"
          => /\ last'.tag \in {"Ok", "AlreadyExists"}
             /\ last'.tag = "AlreadyExists" <=> IssuedFor(last'.key, last'.name) # {}]_vars

\* create_channel succeeds for a name that another group has registered and
\* that this group had registered and removed.
C5_Witness ==
    /\ last.op = "create_channel"
    /\ last.tag = "Ok"
    /\ \E t \in issued : t[1] # last.key /\ t[2] = last.name
    /\ \E x \in removed : x[1] = last.key

\* C6: a create_channel(name) that fails with AlreadyExists leaves the store
\* unchanged, and ensure_channel(name) then returns the id issued for name.
C6_FailedCreateChangesNothing ==
    [][(last'.op = "create_channel" /\ last'.tag = "AlreadyExists")
          => /\ mesh_channels' = mesh_channels
             /\ LET e == MeshChannels_ensure_channel(mesh_channels', last'.key, last'.name) IN
                /\ e.tag = "Ok"
                /\ e.self = mesh_channels
                /\ <<last'.key, last'.name, e.id>> \in issued]_vars

C6_Witness ==
    /\ last.op = "create_channel"
    /\ last.tag = "AlreadyExists"

\* C7: once remove_channel(id) has succeeded, read_channel(id) and
\* write_channel(id) fail with NotFound, and channel_id(name) returns none
\* for the name the channel had, as for every name that is not registered.
C7_RemovedIsNotFound ==
    /\ (last.op \in {"read_channel", "write_channel"} /\ <<last.key, last.id>> \in removed)
          => last.tag = "NotFound"
    /\ (last.op = "remove_channel" /\ last.tag = "Ok")
          => /\ MeshChannels_channel_id(mesh_channels, last.key, last.name).tag = "None"
             /\ MeshChannels_read_channel(mesh_channels, last.key, last.id).tag = "NotFound"
             /\ MeshChannels_write_channel(mesh_channels, last.key, last.id).tag = "NotFound"
    /\ (last.op = "channel_id" /\ IssuedFor(last.key, last.name) = {})
          => last.tag = "None"

\* read_channel on a removed id whose slot holds a newer channel.
C7_Witness ==
    /\ last.op = "read_channel"
    /\ <<last.key, last.id>> \in removed
    /\ <<last.key, last.id.idx>> \in LiveChannels(mesh_channels)

\* The channel and element of the last call, as shadow names them.
LastElem == <<last.key, last.id, last.elem>>

\* The element of the last call has no entry in the channel it was made on.
LastHasNoEntry == last.elem \notin StoredKeys(ChannelOf(mesh_channels, last.key, last.id))

\* C8 as stated: for an id without a stored entry, get(id) and channel[id]
\* give a value, the channel's default.
C8_GetReturnsDefault ==
    (last.op \in {"index", "get"} /\ LastHasNoEntry)
        => /\ last.tag \in {"Ok", "Some"}
           /\ last.rval = DefaultValue

\* C8, amended: for an id without a stored entry, channel[id] never fails and
\* is the channel's default, and Channel::get(id) is None.
C8_IndexReturnsDefault ==
    /\ (last.op = "index" /\ LastHasNoEntry)
          => /\ last.tag = "Ok"
             /\ last.rval = ChannelOf(mesh_channels, last.key, last.id).default
             /\ last.rval = DefaultValue
    /\ (last.op = "get" /\ LastHasNoEntry) => last.tag = "None"

\* channel[id] for an id whose slot holds a value under another generation.
C8_Witness ==
    /\ last.op = "index"
    /\ LastHasNoEntry
    /\ \E k \in StoredKeys(ChannelOf(mesh_channels, last.key, last.id)) :
          /\ k.idx = last.elem.idx
          /\ Channel_index(ChannelOf(mesh_channels, last.key, last.id), k) # DefaultValue

\* C9: get_lua on the handle of dyn_read_channel_by_name, at a foreign id
\* that converts to a key and was never set in the channel, succeeds with the
\* channel's default in the shape of the value type.
C9_DynGetReturnsDefault ==
    (last.op = "get_lua" /\ last.val >= 0 /\ LastElem \notin DOMAIN shadow)
        => /\ last.tag = "Ok"
           /\ last.rval = DefaultValue
           /\ last.rshape = ValueShape(last.key[2])

\* The channel read holds a value that is not the default.
C9_Witness ==
    /\ last.op = "get_lua"
    /\ last.val >= 0
    /\ LastElem \notin DOMAIN shadow
    /\ \E x \in DOMAIN shadow : x[1] = last.key /\ x[2] = last.id /\ shadow[x] # DefaultValue

\* A later write stored a newer generation of the element slot of x in the
\* same channel.
Superseded(x) ==
    \E y \in DOMAIN shadow :
        /\ y[1] = x[1] /\ y[2] = x[2]
        /\ y[3].idx = x[3].idx
        /\ y[3].version > x[3].version

\* C10 as stated: the value last written at e in C is the one read at e
\* through a guard on C, as long as C is not removed.
C10_WrittenValueStays ==
    (last.op = "index" /\ LastElem \in DOMAIN shadow) => last.rval = shadow[LastElem]

\* C10, amended: the value last written at e in C is the one C holds at e,
\* and the one read there, as long as C is not removed and no id of a newer
\* generation of e's slot is written in C; after such a write e reads as the
\* default.
C10_WrittenValueStaysUnlessSuperseded ==
    /\ \A x \in DOMAIN shadow :
          Channel_index(ChannelOf(mesh_channels, x[1], x[2]), x[3])
              = IF Superseded(x) THEN DefaultValue ELSE shadow[x]
    /\ (last.op = "index" /\ LastElem \in DOMAIN shadow /\ ~Superseded(LastElem))
          => last.rval = shadow[LastElem]

\* A read guard reads the value written at e after another id was written.
C10_Witness ==
    /\ last.op = "index"
    /\ Held(R(last.key, last.id))
    /\ LastElem \in DOMAIN shadow
    /\ last.rval # DefaultValue
    /\ \E y \in DOMAIN shadow : y # LastElem /\ shadow[y] # last.rval

\* C11: every group of the store is the ChannelGroup<K, V> instantiation of
\* the key it is stored under, so the downcast of every access succeeds and
\* no typed operation ends in the unreachable branch.
C11_GroupsAreOfTheirKey ==
    /\ \A key \in DOMAIN mesh_channels :
          /\ mesh_channels[key].type = key
          /\ downcast(mesh_channels[key], key) = "Ok"
    /\ last.tag = "Panic"
          => last.op \in {"dyn_read_channel_by_name", "dyn_write_channel_by_name",
                          "introspect"}

\* Both pairings have a group, the last one made by ensure_channel_dyn.
C11_Witness ==
    /\ last.op = "ensure_channel_dyn"
    /\ last.tag = "Ok"
    /\ DOMAIN mesh_channels = GroupKeys

BorrowOps ==
    {"read_channel", "write_channel", "read_channel_by_name", "write_channel_by_name",
     "dyn_read_channel_by_name", "dyn_write_channel_by_name"}

\* C12: a borrow request that is refused for a channel that exists is
\* answered with the BorrowConflict error, on the typed, the by-name and the
\* type-erased paths alike; none of them panics.
C12_ConflictIsAnError ==
    (last.op \in BorrowOps /\ last.tag \notin {"Ok", "NotFound"})
        => last.tag = "BorrowConflict"

\* C13: introspect completes normally iff no channel of any group is write
\* borrowed at the call; read guards do not make it fail.
C13_IntrospectNeedsNoWriter ==
    last.op = "introspect"
        => (last.tag = "Ok" <=> \A d \in BagToSet(guards) : d.mode # "write")

\* introspect completes while two read guards are held.
C13_Witness ==
    /\ last.op = "introspect"
    /\ last.tag = "Ok"
    /\ BagCardinality(guards) = 2

\* The writes to channel id of group key at element slot i.
ShadowAt(key, id, i) ==
    {x \in DOMAIN shadow : x[1] = key /\ x[2] = id /\ x[3].idx = i}

Newest(S) == CHOOSE x \in S : \A y \in S : y[3].version <= x[3].version

\* The values written to the channel, rendered, in the arena order of the
\* elements they were written at.
WrittenSeq(key, id) ==
    LET idxs == SelectSeq([i \in 1..MaxElemIdx |-> i],
                          LAMBDA i : ShadowAt(key, id, i) # {}) IN
    [j \in 1..Len(idxs) |-> Debug_fmt(key[2], shadow[Newest(ShadowAt(key, id, idxs[j]))])]

\* C14: introspect has one entry per group of the store, keyed by exactly
\* the names registered in the group, each with the renderings of the values
\* set in the channel, one per stored entry in arena order and none for
\* unset ids.
C14_IntrospectListsStoredEntries ==
    (last.op = "introspect" /\ last.tag = "Ok")
        => LET v == MeshChannels_introspect(mesh_channels).value IN
           /\ DOMAIN v = DOMAIN mesh_channels
           /\ \A key \in DOMAIN v :
                 /\ DOMAIN v[key] = {t[2] : t \in {u \in issued : u[1] = key}}
                 /\ \A t \in {u \in issued : u[1] = key} :
                       v[key][t[2]] = WrittenSeq(key, t[3])

\* A channel is listed with two different values, another with none.
C14_Witness ==
    /\ last.op = "introspect"
    /\ last.tag = "Ok"
    /\ \E key \in DOMAIN mesh_channels :
          LET v == ChannelGroup_introspect(mesh_channels[key]).value IN
          /\ \E n \in DOMAIN v : Len(v[n]) = 2 /\ v[n][1] # v[n][2]
          /\ \E n \in DOMAIN v : Len(v[n]) = 0

\* C15 as stated: after ensure_channel, create_channel, remove_channel,
\* read_channel or write_channel for a pairing, the group of the pairing exists.
C15_FacadeMaterializesGroup ==
    last.op \in {"ensure_channel", "create_channel", "remove_channel",
                 "read_channel", "write_channel"}
        => HasGroup(mesh_channels, last.key)

\* The outcome of the last call is the outcome r of the group operation.
ForwardedFrom(r) ==
    /\ last'.tag = r.tag
    /\ last'.rid = r.id
    /\ mesh_channels' = [k \in DOMAIN mesh_channels \cup {last'.key} |->
                            IF k = last'.key THEN r.self ELSE mesh_channels[k]]

\* The group of the last call's pairing before the call, or a new one.
GroupBefore ==
    IF HasGroup(mesh_channels, last'.key) THEN mesh_channels[last'.key]
    ELSE ChannelGroup_default(last'.key[1], last'.key[2])

\* C15, amended: ensure_channel and create_channel materialize the group of
\* their pairing and forward to it; remove_channel, read_channel and
\* write_channel forward to the group when it exists, and otherwise fail
\* with an error and leave the store without the group.
C15_EnsureAndCreateMaterializeGroup ==
    [][/\ last'.op = "ensure_channel"
            => ForwardedFrom(ChannelGroup_ensure_channel(GroupBefore, last'.name))
       /\ last'.op = "create_channel"
            => ForwardedFrom(ChannelGroup_create_channel(GroupBefore, last'.name))
       /\ (last'.op \in {"remove_channel", "read_channel", "write_channel"}
             /\ ~HasGroup(mesh_channels, last'.key))
            => /\ last'.tag = "NotFound"
               /\ mesh_channels' = mesh_channels
       /\ (last'.op = "remove_channel" /\ HasGroup(mesh_channels, last'.key))
            => ForwardedFrom(ChannelGroup_remove_channel(GroupBefore, last'.id))
       /\ (last'.op = "read_channel" /\ HasGroup(mesh_channels, last'.key))
            => ForwardedFrom(ChannelGroup_read_channel(GroupBefore, last'.id))
       /\ (last'.op = "write_channel" /\ HasGroup(mesh_channels, last'.key))
            => ForwardedFrom(ChannelGroup_write_channel(GroupBefore, last'.id))]_vars

\* read_channel for a pairing without group, while the other pairing has one.
C15_Witness ==
    /\ last.op = "read_channel"
    /\ last.tag = "NotFound"
    /\ ~HasGroup(mesh_channels, last.key)
    /\ DOMAIN mesh_channels # {}

\* C16: remove_channel(id) on a registered id succeeds and removes the name
\* registration and the channel, and nothing else; on any other id it fails
\* with NotFound and leaves the store as it was.
C16_RemoveChannel ==
    [][last'.op = "remove_channel"
          => IF Registered(last'.key, last'.id)
             THEN /\ last'.tag = "Ok"
                  /\ MeshChannels_channel_id(mesh_channels', last'.key, last'.name).tag = "None"
                  /\ ~SlotMap_contains_key(mesh_channels'[last'.key].channels, last'.id)
                  /\ LiveChannels(mesh_channels')
                        = LiveChannels(mesh_channels) \ {<<last'.key, last'.id.idx>>}
                  /\ mesh_channels'[last'.key].channel_names
                        = mesh_channels[last'.key].channel_names \ {<<last'.name, last'.id>>}
                  /\ \A k \in DOMAIN mesh_channels \ {last'.key} :
                        mesh_channels'[k] = mesh_channels[k]
             ELSE /\ last'.tag = "NotFound"
                  /\ mesh_channels' = mesh_channels]_vars

\* remove_channel on a removed id whose slot holds a newer channel.
C16_Witness ==
    /\ last.op = "remove_channel"
    /\ last.tag = "NotFound"
    /\ <<last.key, last.id>> \in removed
    /\ <<last.key, last.id.idx>> \in LiveChannels(mesh_channels)

ByNameReads == {"read_channel_by_name", "dyn_read_channel_by_name"}

ByNameWrites == {"write_channel_by_name", "dyn_write_channel_by_name"}

\* C17: a by-name borrow, typed or tagged, of a name that is not registered
\* for the pairing fails with NotFound and changes nothing; of a registered
\* name it is read_channel / write_channel on channel_id(name).
C17_ByNameIsLookupThenBorrow ==
    [][last'.op \in ByNameReads \cup ByNameWrites
          => LET c == MeshChannels_channel_id(mesh_channels, last'.key, last'.name)
                 r == IF last'.op \in ByNameReads
                      THEN MeshChannels_read_channel(mesh_channels, last'.key, c.id)
                      ELSE MeshChannels_write_channel(mesh_channels, last'.key, c.id) IN
             IF c.tag = "None"
             THEN /\ last'.tag = "NotFound"
                  /\ mesh_channels' = mesh_channels
                  /\ guards' = guards
             ELSE /\ last'.tag = r.tag
                  /\ last'.rid = r.id
                  /\ mesh_channels' = r.self]_vars

\* C18: in every group the name table pairs names and ids one to one, and
\* every id in it has a live channel, so that a live channel is reachable
\* from at most one name.
C18_NameTableIsBijection ==
    \A key \in DOMAIN mesh_channels :
        LET g == mesh_channels[key] IN
        /\ \A p, q \in g.channel_names : (p[1] = q[1]) <=> (p[2] = q[2])
        /\ \A p \in g.channel_names : SlotMap_contains_key(g.channels, p[2])
        /\ \A i \in 1..Len(g.channels.slots) :
              Cardinality({p \in g.channel_names : p[2].idx = i}) <= 1

\* Two names registered in a group after a removal and a refused create.
C18_Witness ==
    /\ last.op = "create_channel"
    /\ last.tag = "AlreadyExists"
    /\ \E x \in removed : x[1] = last.key
    /\ Cardinality(mesh_channels[last.key].channel_names) = 2

\* The channel of the last call.
LastChannel == ChannelOf(mesh_channels, last.key, last.id)

\* C19: Channel.set(id, value) accepts every id the arena has handed out,
\* whether or not the channel holds an entry for it, and get(id) is then
\* value; it rejects only ids that were never valid (the null id), leaving
\* the channel unchanged.
C19_SetAcceptsSeenIds ==
    last.op = "set"
        => IF is_null(last.elem)
           THEN last.tag = "None"
           ELSE /\ last.tag = "Some"
                /\ Channel_get(LastChannel, last.elem) = [tag |-> "Some", val |-> last.val]

MutationOps == {"get_mut", "index_mut", "set_lua"}

\* The value the last mutation was to store.
LastWritten == IF last.op = "set_lua" THEN last.rval ELSE last.val

\* The last call was a mutation at an id without entry: for set_lua, one
\* whose foreign id and value converted.
MutatedAbsent ==
    /\ last'.op \in MutationOps
    /\ last'.tag # "TypeMismatch"
    /\ last'.elem \notin StoredKeys(ChannelOf(mesh_channels, last'.key, last'.id))

\* The mutation went through and the entry holds the value.
Vivified ==
    /\ last'.tag \in {"Ok", "Some"}
    /\ Channel_get(ChannelOf(mesh_channels', last'.key, last'.id), last'.elem)
          = [tag |-> "Some", val |-> LastWritten']

\* C20 as stated: a mutation through an id without entry creates the entry
\* and applies the mutation, for every id, and never fails or panics.
C20_MutationAlwaysVivifies ==
    [][MutatedAbsent => Vivified]_vars

\* C20, amended: a mutation through an id without entry creates the entry
\* and applies the mutation for every id that is not null and not of an
\* older generation than the entry stored in its slot; for the other ids
\* index assignment and set_lua panic and get_mut returns None, and the
\* channel is unchanged.
C20_MutationVivifiesUnlessStale ==
    [][MutatedAbsent
          => IF SecondaryMap_entry(ChannelOf(mesh_channels, last'.key, last'.id).inner,
                                   last'.elem) # "None"
             THEN Vivified
             ELSE /\ last'.tag = IF last'.op = "get_mut" THEN "None" ELSE "Panic"
                  /\ mesh_channels' = mesh_channels]_vars

\* set_lua stores under a newer generation of a slot written before.
C20_Witness ==
    /\ last.op = "set_lua"
    /\ last.tag = "Ok"
    /\ \E x \in DOMAIN shadow :
          /\ x[1] = last.key /\ x[2] = last.id
          /\ x[3].idx = last.elem.idx
          /\ x[3].version < last.elem.version

\* An entry of ch sits in the element slot of key under another generation.
OtherGeneration(ch, key) ==
    \E k \in StoredKeys(ch) : k.idx = key.idx /\ k.version # key.version

\* C21: a value written under an element id is never returned by a read with
\* an id of the same slot and another generation: in every channel such an
\* id reads as the channel's default (and Channel::get finds nothing), and
\* so does every read made with one, typed or type-erased.
C21_StaleHandleNeverAliases ==
    /\ \A c \in LiveChannels(mesh_channels) : \A e \in ElemKeys :
          LET ch == mesh_channels[c[1]].channels.slots[c[2]].cell.value IN
          OtherGeneration(ch, e)
              => /\ Channel_index(ch, e) = ch.default
                 /\ Channel_get(ch, e).tag = "None"
    /\ (/\ last.op \in {"index", "get", "get_lua"}
        /\ last.elem # NoElem
        /\ OtherGeneration(LastChannel, last.elem))
          => /\ last.rval = DefaultValue
             /\ last.tag # "Some"

\* A read with an id written before, after a newer generation of its slot
\* was written with another value.
C21_Witness ==
    /\ last.op = "index"
    /\ LastElem \in DOMAIN shadow
    /\ shadow[LastElem] # DefaultValue
    /\ last.rval = DefaultValue
    /\ \E k \in StoredKeys(LastChannel) :
          /\ k.idx = last.elem.idx
          /\ k.version > last.elem.version

\* The borrow request for the channel registered as t = <<key, name, id>>
\* has the same outcome on either path: dyn is the type-erased request by
\* name, typed the typed request by id.
SameBorrow(dyn, typed, t) ==
    /\ (dyn.tag = "Ok") = (typed.tag = "Ok")
    /\ dyn.self = typed.self
    /\ dyn.tag = "Ok" => dyn.id = t[3]

\* C22: the typed and the type-erased path address the same channels.
\* ensure_channel_dyn(k, v, name) returns the id and leaves the store that
\* ensure_channel::<K, V>(name) does; get_lua on the handle of
\* dyn_read_channel_by_name returns what was written through a typed write
\* guard, and a typed read returns what set_lua wrote; a borrow request is
\* granted on one path exactly when it is on the other and then sets the
\* same borrow flag, so that guards of the two paths conflict.
C22_TypedAndDynPathsAgree ==
    /\ [][last'.op = "ensure_channel_dyn"
             => MeshChannels_ensure_channel(mesh_channels, last'.key, last'.name)
                    = [self |-> mesh_channels', tag |-> last'.tag, id |-> last'.rid]]_vars
    /\ [](/\ (last.op = "get_lua" /\ last.val >= 0)
                => /\ last.tag = "Ok"
                   /\ last.rval = Channel_index(LastChannel, last.elem)
                   /\ (LastElem \in DOMAIN shadow /\ ~Superseded(LastElem))
                         => last.rval = shadow[LastElem]
          /\ (last.op = "index" /\ LastElem \in DOMAIN shadow /\ ~Superseded(LastElem))
                => last.rval = shadow[LastElem]
          /\ \A t \in issued :
                /\ SameBorrow(MeshChannels_dyn_read_channel_by_name(
                                  mesh_channels, t[1][1], t[1][2], t[2]),
                              MeshChannels_read_channel(mesh_channels, t[1], t[3]), t)
                /\ SameBorrow(MeshChannels_dyn_write_channel_by_name(
                                  mesh_channels, t[1][1], t[1][2], t[2]),
                              MeshChannels_write_channel(mesh_channels, t[1], t[3]), t))

\* get_lua returns a value written through a typed write guard, in a store
\* whose other channel holds a value written with set_lua.
C22_Witness ==
    /\ last.op = "get_lua"
    /\ last.name = "position"
    /\ last.rval # DefaultValue
    /\ LastElem \in DOMAIN shadow
    /\ \E x \in DOMAIN shadow : NameOf(x[1], x[2]) = "size" /\ shadow[x] # DefaultValue

\* C23: for each of the 15 pairings (k, v) of a kind tag with a value tag,
\* ensure_group_dyn(k, v) returns the group stored under the key (k, v),
\* of that pairing's instantiation, and creates that one store entry when
\* it is absent and no other; so dyn_read_channel_by_name(k, v, name) after
\* ensure_channel_dyn(k, v, name) succeeds.
C23_DispatchReachesOwnGroup ==
    /\ [](\A key \in AllGroupKeys :
             LET e == ensure_group_dyn(mesh_channels, key[1], key[2]) IN
             /\ e.at = key
             /\ e.self[key].type = key
             /\ DOMAIN e.self = DOMAIN mesh_channels \cup {key}
             /\ \A k \in DOMAIN mesh_channels : e.self[k] = mesh_channels[k])
    /\ [][last'.op = "ensure_channel_dyn"
             => /\ last'.tag = "Ok"
                /\ DOMAIN mesh_channels' = DOMAIN mesh_channels \cup {last'.key}
                /\ \A k \in DOMAIN mesh_channels \ {last'.key} :
                      mesh_channels'[k] = mesh_channels[k]
                /\ MeshChannels_dyn_read_channel_by_name(
                       mesh_channels', last'.key[1], last'.key[2], last'.name).tag = "Ok"]_vars
    /\ []((last.op = "dyn_read_channel_by_name" /\ IssuedFor(last.key, last.name) # {})
             => last.tag = "Ok")

\* The channel of a third pairing, of the boolean value type, is read by
\* name after ensure_channel_dyn registered it.
C23_Witness ==
    /\ last.op = "dyn_read_channel_by_name"
    /\ last.tag = "Ok"
    /\ last.key = <<"HalfEdgeId", "bool">>
    /\ <<"FaceId", "Vec4">> \in DOMAIN mesh_channels
    /\ <<"VertexId", "Vec2">> \in DOMAIN mesh_channels

\* The handle DefaultChannels caches for the mesh whose store DataInit builds.
CachedPosition == DefaultChannels_with_position(MeshChannels_default).position

\* C24: after DefaultChannels::with_position, in every state the store
\* operations reach, the (VertexId, Vec3) group has a channel named
\* "position", and the cached handle resolves to it: read_channel with it
\* never returns NotFound.
C24_PositionAlwaysPresent ==
    /\ MeshChannels_channel_id(mesh_channels, key_of("VertexId", "Vec3"), "position")
          = [tag |-> "Some", id |-> CachedPosition]
    /\ MeshChannels_read_channel(mesh_channels, key_of("VertexId", "Vec3"),
                                 CachedPosition).tag # "NotFound"

\* Store a has the groups, names, ids and values of store b.
SameContents(a, b) ==
    /\ DOMAIN a = DOMAIN b
    /\ \A key \in DOMAIN a :
          /\ a[key].type = b[key].type
          /\ a[key].channel_names = b[key].channel_names
          /\ a[key].channels.free_head = b[key].channels.free_head
          /\ DOMAIN a[key].channels.slots = DOMAIN b[key].channels.slots
          /\ \A i \in DOMAIN a[key].channels.slots :
                /\ a[key].channels.slots[i].version = b[key].channels.slots[i].version
                /\ a[key].channels.slots[i].cell.value = b[key].channels.slots[i].cell.value

\* No channel of the store is borrowed.
Unborrowed(mc) ==
    \A key \in DOMAIN mc : \A i \in DOMAIN mc[key].channels.slots :
        mc[key].channels.slots[i].cell.borrow = 0

\* C25: channel data is never shared between two stores.  The clone of a
\* store has the same groups, names, ids and values, and borrow flags of its
\* own; ensure, create, remove, borrow, release and write on either store
\* leave the registry, the contents and the borrow state of the other as
\* they were.
C25_CloneIsIndependent ==
    /\ [][/\ (last'.op = "clone" /\ last'.tag = "Ok")
                => /\ SameContents(other'.mesh_channels, mesh_channels)
                   /\ Unborrowed(other'.mesh_channels)
                   /\ mesh_channels' = mesh_channels
                   /\ guards' = guards
          /\ last'.op \notin {"clone", "swap"} => other' = other
          /\ last'.op = "swap"
                => /\ other'.mesh_channels = mesh_channels
                   /\ mesh_channels' = other.mesh_channels]_vars
    /\ [](other.made => Unborrowed(other.mesh_channels))

\* The clone had a channel removed and nothing written; then the original,
\* whose channels are all there, is written under a write guard.
C25_Witness ==
    /\ other.made
    /\ last.op = "index_mut" /\ last.tag = "Ok" /\ last.val # DefaultValue
    /\ other.removed # {} /\ removed = {}
    /\ other.shadow = << >>
    /\ ~SameContents(other.mesh_channels, mesh_channels)
    /\ ~Unborrowed(mesh_channels)

\* Guards held on the channel id of the group of key.
GuardsOn(key, id) == Copies(R(key, id)) + Copies(W(key, id))

\* C26: the borrow state is per channel.  read_channel and write_channel on
\* a registered channel are refused only when a guard on that very channel
\* is held; guards on other channels, of the same group or of another, never
\* make them fail.
C26_BorrowStateIsPerChannel ==
    /\ (/\ last.op \in {"read_channel", "write_channel"}
        /\ Registered(last.key, last.id)
        /\ last.tag # "Ok")
          => GuardsOn(last.key, last.id) > 0
    /\ \A t \in issued :
          GuardsOn(t[1], t[3]) = 0
              => /\ MeshChannels_read_channel(mesh_channels, t[1], t[3]).tag = "Ok"
                 /\ MeshChannels_write_channel(mesh_channels, t[1], t[3]).tag = "Ok"

\* write_channel is granted while a write guard on another channel of the
\* same group is held.
C26_Witness ==
    /\ last.op = "write_channel"
    /\ last.tag = "Ok"
    /\ \E d \in HeldGuards :
          /\ d.mode = "write"
          /\ d.key = last.key
          /\ d.id # last.id

\* The foreign id, or the foreign value, of the last set_lua does not convert.
LastUnconvertible ==
    \/ last'.val < 0
    \/ last'.rshape # ValueShape(last'.key[2])

\* C27: on the type-erased handle, set with a foreign id that does not
\* convert to K or a foreign value that does not convert to V returns
\* TypeMismatch and leaves the channel (the whole store) unchanged; get with
\* a foreign id that does not convert returns that error, not the default.
C27_UnconvertibleIsTypeMismatch ==
    [][/\ (last'.op = "set_lua" /\ LastUnconvertible)
             => /\ last'.tag = "TypeMismatch"
                /\ mesh_channels' = mesh_channels
       /\ (last'.op = "get_lua" /\ last'.val < 0)
             => /\ last'.tag = "TypeMismatch"
                /\ last'.rshape = "Nil"
                /\ mesh_channels' = mesh_channels]_vars

\* set with an id that converts and a value that does not, on a channel that
\* holds an entry for the id.
C27_Witness ==
    /\ last.op = "set_lua"
    /\ last.val >= 0
    /\ last.rshape = "Nil"
    /\ last.tag = "TypeMismatch"
    /\ LastElem \in DOMAIN shadow
    /\ shadow[LastElem] # DefaultValue
    /\ Channel_index(LastChannel, last.elem) = shadow[LastElem]

\* C28: channel_id(name) is the id name is registered under, and nothing
\* for a name that is not registered; channel_name(id) is the name of a
\* registered id, and nothing for any other id; each is the inverse of the
\* other on registered names and ids; neither changes the store.
C28_LookupsAreInverse ==
    /\ [][/\ last'.op = "channel_id"
                => /\ IF IssuedFor(last'.key, last'.name) # {}
                      THEN /\ last'.tag = "Some"
                           /\ <<last'.key, last'.name, last'.rid>> \in issued
                      ELSE last'.tag = "None"
                   /\ mesh_channels' = mesh_channels /\ guards' = guards
          /\ last'.op = "channel_name"
                => /\ IF Registered(last'.key, last'.id)
                      THEN /\ last'.tag = "Some"
                           /\ <<last'.key, last'.name, last'.id>> \in issued
                      ELSE last'.tag = "None"
                   /\ mesh_channels' = mesh_channels /\ guards' = guards]_vars
    /\ [](\A key \in GroupKeys :
             /\ \A name \in Names :
                   LET c == MeshChannels_channel_id(mesh_channels, key, name) IN
                   c.tag = "Some"
                       => MeshChannels_channel_name(mesh_channels, key, c.id)
                              = [tag |-> "Some", name |-> name]
             /\ \A id \in RawChannelIds :
                   LET n == MeshChannels_channel_name(mesh_channels, key, id) IN
                   n.tag = "Some"
                       => MeshChannels_channel_id(mesh_channels, key, n.name)
                              = [tag |-> "Some", id |-> id])

\* channel_name finds nothing for the id of a removed channel whose slot a
\* registered channel occupies.
C28_Witness ==
    /\ last.op = "channel_name"
    /\ last.tag = "None"
    /\ <<last.key, last.id>> \in removed
    /\ \E t \in issued : t[1] = last.key /\ t[3].idx = last.id.idx

C30_ScriptReachesEveryPairing ==
    last.op = "script_ensure_channel"
        => /\ Types_get(last.key[1]) = last.key[1]
           /\ Types_get(last.key[2]) = last.key[2]
           /\ last.tag = "Ok"

\* C31: the borrow state of a channel counts its read guards.  While any
\* read guard on C is held write_channel(C) is refused, also after some of
\* them were dropped, and it is granted once none is held (and no write
\* guard is); a borrow request that is refused leaves the borrow state, and
\* the whole store, as it was.
C31_ReadGuardsAreCounted ==
    /\ [](\A t \in issued :
             /\ CellOf(mesh_channels[t[1]], t[3]).borrow
                   = IF Copies(W(t[1], t[3])) > 0 THEN -1 ELSE Copies(R(t[1], t[3]))
             /\ (MeshChannels_write_channel(mesh_channels, t[1], t[3]).tag = "Ok")
                   = (GuardsOn(t[1], t[3]) = 0)
             /\ Copies(R(t[1], t[3])) > 0
                   => MeshChannels_write_channel(mesh_channels, t[1], t[3]).tag
                          = "BorrowConflict")
    /\ [][/\ (last'.op = "write_channel" /\ Registered(last'.key, last'.id))
                => last'.tag = IF GuardsOn(last'.key, last'.id) > 0
                               THEN "BorrowConflict" ELSE "Ok"
          /\ (last'.op \in BorrowOps /\ last'.tag # "Ok")
                => /\ mesh_channels' = mesh_channels
                   /\ guards' = guards]_vars

\* One of two read guards on a channel was dropped, and write_channel on it
\* is still refused.
C31_Witness ==
    /\ last.op = "drop"
    /\ last.rshape = "read"
    /\ Copies(R(last.key, last.id)) = 1
    /\ MeshChannels_write_channel(mesh_channels, last.key, last.id).tag = "BorrowConflict"

\* The ids written, through a mutation primitive, in the channel id of the
\* group of key since it was registered.
WrittenKeys(key, id) == {x[3] : x \in {y \in DOMAIN shadow : y[1] = key /\ y[2] = id}}

\* The ids Channel::iter yields.
IterKeys(ch) == {Channel_iter(ch)[j][1] : j \in 1..Len(Channel_iter(ch))}

ReadOps == {"index", "get", "get_lua"}

\* C32 as stated: get, indexing and get_lua leave the channel unchanged, and
\* iter yields exactly the ids that were written, each once.
C32_IterYieldsWrittenIds ==
    /\ [][last'.op \in ReadOps => mesh_channels' = mesh_channels]_vars
    /\ [](\A t \in issued :
             LET ch == ChannelOf(mesh_channels, t[1], t[3]) IN
             /\ IterKeys(ch) = WrittenKeys(t[1], t[3])
             /\ Len(Channel_iter(ch)) = Cardinality(IterKeys(ch)))

\* C32, amended: get, indexing and get_lua leave the channel unchanged, and
\* iter yields, each once, exactly the ids that were written and whose slot
\* was not written under a newer generation since; it never yields an id
\* that was only read.
C32_IterYieldsWrittenIdsNotSuperseded ==
    /\ [][last'.op \in ReadOps => mesh_channels' = mesh_channels]_vars
    /\ [](\A t \in issued :
             LET ch == ChannelOf(mesh_channels, t[1], t[3]) IN
             /\ IterKeys(ch) = {e \in WrittenKeys(t[1], t[3]) : ~Superseded(<<t[1], t[3], e>>)}
             /\ Len(Channel_iter(ch)) = Cardinality(IterKeys(ch)))

\* An id that was never written is read in a channel that holds entries, and
\* iter does not yield it.
C32_Witness ==
    /\ last.op \in ReadOps
    /\ last.tag = "Ok"
    /\ ~is_null(last.elem)
    /\ LastElem \notin DOMAIN shadow
    /\ IterKeys(LastChannel) # {}
    /\ last.elem \notin IterKeys(LastChannel)

\* The last call was made on the channel registered as t with an id other than k.
OnOtherId(t, k) == ~(last'.key = t[1] /\ last'.id = t[3] /\ last'.elem = k)

\* The last call was a write that stored, in the channel registered as t,
\* an id of a newer generation of the slot of k.
WroteNewerGeneration(t, k) ==
    /\ last'.key = t[1] /\ last'.id = t[3]
    /\ last'.tag \in {"Ok", "Some"}
    /\ last'.elem.idx = k.idx
    /\ last'.elem.version > k.version

\* C33 as stated: an entry stays in its channel while the channel is there:
\* no operation made with another id, a newer-generation id of the same
\* arena slot included, removes or replaces it.
C33_EntryStays ==
    [][\A t \in issued \cap issued' :
          \A k \in StoredKeys(ChannelOf(mesh_channels, t[1], t[3])) :
              /\ k \in StoredKeys(ChannelOf(mesh_channels', t[1], t[3]))
              /\ OnOtherId(t, k)
                    => Channel_get(ChannelOf(mesh_channels', t[1], t[3]), k)
                           = Channel_get(ChannelOf(mesh_channels, t[1], t[3]), k)]_vars

\* C33, amended: an entry stays in its channel, with its value, under every
\* operation made with another id, until the channel is removed or an id of
\* a newer generation of its arena slot is written in the channel; that
\* write replaces it.
C33_EntryStaysUnlessSuperseded ==
    [][\A t \in issued \cap issued' :
          \A k \in StoredKeys(ChannelOf(mesh_channels, t[1], t[3])) :
              IF WroteNewerGeneration(t, k)
              THEN /\ k \notin StoredKeys(ChannelOf(mesh_channels', t[1], t[3]))
                   /\ last'.elem \in StoredKeys(ChannelOf(mesh_channels', t[1], t[3]))
              ELSE /\ k \in StoredKeys(ChannelOf(mesh_channels', t[1], t[3]))
                   /\ OnOtherId(t, k)
                         => Channel_get(ChannelOf(mesh_channels', t[1], t[3]), k)
                                = Channel_get(ChannelOf(mesh_channels, t[1], t[3]), k)]_vars

\* A write stored an id while the channel keeps the value written under an
\* id of another slot.
C33_Witness ==
    /\ last.op \in MutationOps
    /\ last.tag \in {"Ok", "Some"}
    /\ last.elem \in StoredKeys(LastChannel)
    /\ \E k \in StoredKeys(LastChannel) :
          /\ k.idx # last.elem.idx
          /\ <<last.key, last.id, k>> \in DOMAIN shadow
          /\ shadow[<<last.key, last.id, k>>] # DefaultValue
          /\ Channel_index(LastChannel, k) = shadow[<<last.key, last.id, k>>]

RegisteringOps == {"ensure_channel", "create_channel", "ensure_channel_dyn"}

\* C34: a removed channel id is never resurrected.  Whatever is registered
\* after remove_channel(id) in the group, in the freed slot or under the
\* same name, read_channel(id), write_channel(id) and remove_channel(id)
\* return NotFound and channel_name(id) nothing; a channel allocated later
\* has an id that was never removed and starts without entries, unborrowed.
C34_RemovedIdStaysDead ==
    /\ [](\A x \in removed :
             /\ MeshChannels_read_channel(mesh_channels, x[1], x[2]).tag = "NotFound"
             /\ MeshChannels_write_channel(mesh_channels, x[1], x[2]).tag = "NotFound"
             /\ MeshChannels_remove_channel(mesh_channels, x[1], x[2]).tag = "NotFound"
             /\ MeshChannels_channel_name(mesh_channels, x[1], x[2]).tag = "None")
    /\ [][/\ (/\ last'.op \in {"read_channel", "write_channel", "remove_channel"}
              /\ <<last'.key, last'.id>> \in removed)
                => last'.tag = "NotFound"
          /\ (/\ last'.op \in RegisteringOps
              /\ last'.tag = "Ok"
              /\ IssuedFor(last'.key, last'.name) = {})
                => /\ <<last'.key, last'.rid>> \notin removed
                   /\ StoredKeys(ChannelOf(mesh_channels', last'.key, last'.rid)) = {}
                   /\ CellOf(mesh_channels'[last'.key], last'.rid).borrow = 0]_vars

\* read_channel with a removed id returns NotFound while a channel
\* registered later sits in its slot and holds an entry.
C34_Witness ==
    /\ last.op = "read_channel"
    /\ last.tag = "NotFound"
    /\ <<last.key, last.id>> \in removed
    /\ \E t \in issued :
          /\ t[1] = last.key
          /\ t[3].idx = last.id.idx
          /\ StoredKeys(ChannelOf(mesh_channels, t[1], t[3])) # {}

\* The channel id the last structural call allocated or removed, if it did.
Touched ==
    IF last'.tag # "Ok" THEN NoId
    ELSE IF last'.op = "remove_channel" THEN last'.id
    ELSE last'.rid

\* C35: groups and channels are independent.  ensure_channel,
\* create_channel and remove_channel on the (K, V) group leave every other
\* group as it was and create none but their own, and leave the names, ids,
\* contents and borrow state of the other channels of the group as they
\* were; a write to a channel changes no other channel, in particular not
\* the channel registered under the same name in another group.
C35_GroupsAreIndependent ==
    [][/\ last'.op \in RegisteringOps \cup {"remove_channel"}
             => /\ DOMAIN mesh_channels' \subseteq DOMAIN mesh_channels \cup {last'.key}
                /\ \A k \in DOMAIN mesh_channels \ {last'.key} :
                      k \in DOMAIN mesh_channels' /\ mesh_channels'[k] = mesh_channels[k]
                /\ last'.key \in DOMAIN mesh_channels
                      => LET g == mesh_channels[last'.key]
                             h == mesh_channels'[last'.key] IN
                         /\ {p \in g.channel_names : p[2] # Touched}
                               = {p \in h.channel_names : p[2] # Touched}
                         /\ \A i \in DOMAIN g.channels.slots :
                               i # Touched.idx
                                   => /\ h.channels.slots[i].version = g.channels.slots[i].version
                                      /\ h.channels.slots[i].cell = g.channels.slots[i].cell
       /\ last'.op \in MutationOps
             => /\ DOMAIN mesh_channels' = DOMAIN mesh_channels
                /\ \A k \in DOMAIN mesh_channels :
                      /\ mesh_channels'[k].channel_names = mesh_channels[k].channel_names
                      /\ \A i \in DOMAIN mesh_channels[k].channels.slots :
                            (k # last'.key \/ i # last'.id.idx)
                                => mesh_channels'[k].channels.slots[i]
                                       = mesh_channels[k].channels.slots[i]]_vars

\* A channel is removed from one group while a channel of the same name in
\* another group, and another channel of the same group, hold what was
\* written to them.
C35_Witness ==
    /\ last.op = "remove_channel"
    /\ last.tag = "Ok"
    /\ \E t \in issued :
          /\ t[1] # last.key /\ t[2] = last.name
          /\ Channel_index(ChannelOf(mesh_channels, t[1], t[3]), [idx |-> 1, version |-> 1])
                # DefaultValue
    /\ \E t \in issued :
          /\ t[1] = last.key /\ t[2] # last.name
          /\ Channel_index(ChannelOf(mesh_channels, t[1], t[3]), [idx |-> 1, version |-> 1])
                # DefaultValue

\* C36: introspect is read-only and its borrows are momentary: when it
\* returns, the groups, the name tables, the contents of the channels and
\* their borrow state (the read guards and the write guard out on each) are
\* what they were before the call.
C36_IntrospectChangesNothing ==
    [][(last'.op = "introspect" /\ last'.tag = "Ok")
          => /\ mesh_channels' = mesh_channels
             /\ guards' = guards
             /\ \A t \in issued' :
                   CellOf(mesh_channels'[t[1]], t[3]).borrow = Copies(R(t[1], t[3]))']_vars

\* introspect returned while two read guards were out on one channel.
C36_Witness ==
    /\ last.op = "introspect"
    /\ last.tag = "Ok"
    /\ \E t \in issued :
          /\ Copies(R(t[1], t[3])) = 2
          /\ CellOf(mesh_channels[t[1]], t[3]).borrow = 2

StructuralOps == RegisteringOps \cup {"remove_channel"}

\* C37: every guard that is out refers to a live, registered channel (its
\* slot is occupied at the version of the guard's id, and the id is the one
\* the names table holds), and ensure_channel, create_channel,
\* ensure_channel_dyn and remove_channel only run while no guard from the
\* store is out.
C37_GuardsReferToLiveChannels ==
    /\ [](\A d \in HeldGuards :
             /\ Registered(d.key, d.id)
             /\ d.key \in DOMAIN mesh_channels
             /\ SlotMap_contains_key(mesh_channels[d.key].channels, d.id)
             /\ BiMap_contains_right(mesh_channels[d.key].channel_names, d.id))
    /\ [][last'.op \in StructuralOps => (guards = EmptyBag /\ guards' = EmptyBag)]_vars

\* A guard is out on a channel allocated in a slot that an earlier channel,
\* since removed, had occupied.
C37_Witness ==
    \E d \in HeldGuards :
       /\ d.id.version > 1
       /\ <<d.key, [idx |-> d.id.idx, version |-> 1]>> \in removed
       /\ SlotMap_contains_key(mesh_channels[d.key].channels, d.id)

\* C38: cloning the store never aborts: clone succeeds in every reachable
\* state, also while read or write guards on its channels are out, and the
\* clone starts with no borrow out.
C38_CloneNeverAborts ==
    last.op = "clone"
        => /\ last.tag = "Ok"
           /\ other.made
           /\ Unborrowed(other.mesh_channels)

====
